---- MODULE Spec2Model ----
(***************************************************************************)
(* A model of the MIPS assembler and emulator of danielcbailey/MIPSEmulator *)
(* (assembler.go, emulator.go, instructions inside emulator.go,            *)
(* softwareInterrupts.go).                                                 *)
(*                                                                         *)
(* Representation of machine words.  The Go code computes on uint32.  The  *)
(* model checker's integers are 32-bit signed, so a uint32 is modelled as  *)
(* the pair <<hi, lo>> of its two 16-bit halves (value = hi * 2^16 + lo)   *)
(* and every operation is carried out modulo 2^32 on the halves.  Small    *)
(* quantities that the code also keeps in uint32 but that stay far below   *)
(* 2^31 in every run considered (di, runtimeLimit, page ids, word indices) *)
(* are plain naturals.                                                     *)
(***************************************************************************)
EXTENDS Integers, Sequences, FiniteSets, TLC

K8  == 16 * 16
K15 == 128 * 256
K16 == 256 * 256

\* ------------------------------------------------------------------------
\* uint32 arithmetic on <<hi, lo>> pairs
\* ------------------------------------------------------------------------
U32(n)  == <<n \div K16, n % K16>>          \* a natural below 2^31 as a uint32
Zero32  == <<0, 0>>
One32   == <<0, 1>>
Four32  == <<0, 4>>
Ones32  == <<K16 - 1, K16 - 1>>             \* 0xFFFFFFFF

Add32(a, b) ==
    LET s == a[2] + b[2]
    IN  <<(a[1] + b[1] + (s \div K16)) % K16, s % K16>>

Not32(a)    == <<K16 - 1 - a[1], K16 - 1 - a[2]>>      \* a ^ 0xFFFFFFFF
Neg32(a)    == Add32(Not32(a), One32)
Sub32(a, b) == Add32(a, Neg32(b))

LtU32(a, b) == a[1] < b[1] \/ (a[1] = b[1] /\ a[2] < b[2])
\* comparison of the int32 reinterpretations
LtS32(a, b) == LtU32(<<(a[1] + K15) % K16, a[2]>>, <<(b[1] + K15) % K16, b[2]>>)
IsNeg32(a)  == a[1] >= K15

BitF(op, p, q) ==
    CASE op = "and" -> IF p = 1 /\ q = 1 THEN 1 ELSE 0
      [] op = "or"  -> IF p = 1 \/ q = 1 THEN 1 ELSE 0
      [] op = "xor" -> IF p # q THEN 1 ELSE 0

RECURSIVE Bitwise16(_, _, _, _)
Bitwise16(op, x, y, n) ==
    IF n = 0 THEN 0
    ELSE BitF(op, x % 2, y % 2) + 2 * Bitwise16(op, x \div 2, y \div 2, n - 1)

And32(a, b) == <<Bitwise16("and", a[1], b[1], 16), Bitwise16("and", a[2], b[2], 16)>>
Or32(a, b)  == <<Bitwise16("or",  a[1], b[1], 16), Bitwise16("or",  a[2], b[2], 16)>>
Xor32(a, b) == <<Bitwise16("xor", a[1], b[1], 16), Bitwise16("xor", a[2], b[2], 16)>>

RECURSIVE Shl32(_, _)
Shl32(a, k) == IF k = 0 THEN a ELSE Shl32(Add32(a, a), k - 1)

RECURSIVE Shr32(_, _)
Shr32(a, k) ==
    IF k = 0 THEN a
    ELSE Shr32(<<a[1] \div 2, (a[2] \div 2) + (a[1] % 2) * K15>>, k - 1)

\* uint32(int32(a) >> k)
RECURSIVE Sra32(_, _)
Sra32(a, k) ==
    IF k = 0 THEN a
    ELSE Sra32(<<(a[1] \div 2) + (IF IsNeg32(a) THEN K15 ELSE 0),
                 (a[2] \div 2) + (a[1] % 2) * K15>>, k - 1)

\* uint32(int32(imm<<16) >> 16): the low 16 bits sign-extended to 32
SExt16(imm) == <<IF imm >= K15 THEN K16 - 1 ELSE 0, imm>>
\* a 16-bit quantity held in a uint32
ZExt16(imm) == <<0, imm>>
\* uint32(int32((v&0xFF)<<24) >> 24)
SExt8(b)    == IF b >= 128 THEN <<K16 - 1, K16 - K8 + b>> ELSE <<0, b>>

\* the four bytes of a word, least significant first
Bytes4(w) == <<w[2] % K8, w[2] \div K8, w[1] % K8, w[1] \div K8>>
\* (v >> (lane*8)) & 0xFF
ByteLane(w, lane) == Bytes4(w)[lane + 1]

\* ------------------------------------------------------------------------
\* 64-bit products, on little-endian sequences of eight bytes
\* ------------------------------------------------------------------------
ZeroExt64(w) == Bytes4(w) \o <<0, 0, 0, 0>>
SignExt64(w) == Bytes4(w) \o (IF IsNeg32(w) THEN <<255, 255, 255, 255>> ELSE <<0, 0, 0, 0>>)

RECURSIVE ColSum(_, _, _, _)
ColSum(x, y, k, i) ==
    IF i > k THEN 0 ELSE x[i] * y[k + 1 - i] + ColSum(x, y, k, i + 1)

RECURSIVE MulBytes(_, _, _, _)
MulBytes(x, y, k, carry) ==
    IF k > 8 THEN <<>>
    ELSE LET t == ColSum(x, y, k, 1) + carry
         IN  <<t % K8>> \o MulBytes(x, y, k + 1, t \div K8)

\* x * y modulo 2^64
Mul64(x, y) == MulBytes(x, y, 1, 0)
\* uint32(res >> 32) and uint32(res)
Hi32Of64(p) == <<p[8] * K8 + p[7], p[6] * K8 + p[5]>>
Lo32Of64(p) == <<p[4] * K8 + p[3], p[2] * K8 + p[1]>>

\* a uint32 known to be below 2^31, as a natural
ToNat(w) == w[1] * K16 + w[2]

\* ------------------------------------------------------------------------
\* Runtime error kinds (emulator.go, the iota block)
\* ------------------------------------------------------------------------
eUninitializedMemoryAccess       == 0
eUninitializedRegisterAccess     == 1
eRuntimeLimitExceeded            == 2
eInvalidInstruction              == 3
eIllegalRegisterWrite            == 4
eErrorLimitReached               == 5
eShiftOverflow                   == 6
eHiLoUninitializedAccess         == 7
eSoftwareInterruptParameter      == 8
eInvalidSoftwareInterrupt        == 9
eSoftwareInterruptParameterValue == 10
eNoAnswerReported                == 11

\* ------------------------------------------------------------------------
\* Instruction codec (instructions part of emulator.go)
\* ------------------------------------------------------------------------
opRTYPE == 0
opADDI  == 8
opADDIU == 9
opANDI  == 12
opBEQ   == 4
opBNE   == 5
opJ     == 2
opJAL   == 3
opLB    == 32
opLBU   == 36
opLUI   == 15
opLW    == 35
opORI   == 13
opSB    == 40
opSLTI  == 10
opSLTIU == 11
opSW    == 43
opSWI   == 47

fnADD   == 32
fnADDU  == 33
fnAND   == 36
fnDIV   == 26
fnDIVU  == 27
fnJR    == 8
fnMFHI  == 16
fnMFLO  == 18
fnMULT  == 24
fnMULTU == 25
fnXOR   == 38
fnOR    == 37
fnSLT   == 42
fnSLTU  == 43
fnSLL   == 0
fnSRL   == 2
fnSRA   == 3
fnSLLV  == 4
fnSRLV  == 5
fnSRAV  == 6
fnSUB   == 34
fnSUBU  == 35

\* (opCode << 26) | rs<<21 | rt<<16 | rd<<11 | shift<<6 | funct, every field in range
formRInstruction(opCode, rs, rt, rd, shift, funct) ==
    <<(opCode * 1024 + rs * 32 + rt) % K16, rd * 2048 + shift * 64 + funct>>

\* (opCode << 26) | rs<<21 | rt<<16 | (imm & 0xFFFF); imm is a uint32
formIInstruction(opCode, rs, rt, imm) ==
    <<(opCode * 1024 + rs * 32 + rt) % K16, imm[2]>>

\* (opCode << 26) | addr; addr is a uint32
formJInstruction(opCode, addr) == Or32(<<(opCode * 1024) % K16, 0>>, addr)

\* every result not assigned by a branch keeps Go's zero value
decodeInstruction(instr) ==
    LET op == instr[1] \div 1024
    IN  IF op = 0
        THEN [op |-> op,
              x  |-> (instr[1] \div 32) % 32,
              y  |-> instr[1] % 32,
              z  |-> instr[2] \div 2048,
              imm |-> <<0, (instr[2] \div 64) % 32>>,
              fn |-> instr[2] % 64]
        ELSE IF op = opJ \/ op = opJAL
        THEN [op |-> op, x |-> 0, y |-> 0, z |-> 0,
              imm |-> <<instr[1] % 1024, instr[2]>>, fn |-> 0]
        ELSE [op |-> op,
              x  |-> instr[1] % 32,
              y  |-> 0,
              z  |-> (instr[1] \div 32) % 32,
              imm |-> <<0, instr[2]>>,
              fn |-> 0]

\* ------------------------------------------------------------------------
\* Memory images and the paged system memory
\* ------------------------------------------------------------------------
\* A MemoryImage is [startingAddr |-> uint32, memory |-> sequence of uint32].
\* A MemoryPage is [startAddr |-> uint32, memory |-> the words that differ
\* from the zero a fresh slice holds (word index -> uint32), initialized |->
\* the set of word indices whose bit is set, memArr, initArr]: bit (w % 32)
\* of initialized[w \div 32] is the membership of w.  memArr and initArr name
\* the backing arrays the two slices refer to: every make gives an array that
\* no other slice refers to, a copy of the struct refers to the same arrays.
\* Go keeps the words of an array once; the model keeps them with every page
\* of a table whose slice refers to the array, and a store through a slice
\* (SliceStore) changes them in all of these.
EmptyImage(start) == [startingAddr |-> start, memory |-> <<>>]

PageOf(a)   == a[1] * 16 + (a[2] \div 4096)      \* addr >> 12
WordIdx(a)  == (a[2] \div 4) % 1024              \* addr/4 % 1024 = (addr%4096)/4
PageBase(a) == <<a[1], a[2] - (a[2] % 4096)>>    \* addr & 0xFFFFF000
PageStart(id) == <<id \div 16, (id % 16) * 4096>>  \* id << 12
\* the arrays the slices of a page table refer to
ArraysOf(mem) == UNION {{mem[k].memArr, mem[k].initArr} : k \in DOMAIN mem}

\* MemoryPage{startAddr, make([]uint32, 1024), make([]uint32, 32)}: the two
\* arrays are new, used holds the arrays made before
NewPage(start, used) ==
    LET n == IF used = {} THEN 1
             ELSE 1 + CHOOSE m \in used : \A o \in used : o <= m
    IN  [startAddr |-> start, memory |-> << >>, initialized |-> {},
         memArr |-> n, initArr |-> n + 1]

PageWord(page, idx) ==
    IF idx \in DOMAIN page.memory THEN page.memory[idx] ELSE Zero32

PageStore(page, idx, w) ==
    [page EXCEPT !.memory = (idx :> w) @@ @,
                 !.initialized = @ \cup {idx}]

\* mem[id] = page, creating or replacing the entry
PutPage(mem, id, page) == (id :> page) @@ mem

\* insertMemoryValue: grow the image with zero words until addr is covered,
\* then OR the shifted value into the word that holds addr.  The growing loop
\* appends while addr >= startingAddr + 4 * len, so it stops at the length
\* (addr - startingAddr) / 4 + 1 when it runs at all.
expandImage(addr, mem) ==
    IF ~LtU32(addr, Add32(mem.startingAddr, U32(Len(mem.memory) * 4)))
    THEN [mem EXCEPT !.memory =
              @ \o [k \in 1..(ToNat(Shr32(Sub32(addr, mem.startingAddr), 2)) + 1 - Len(@))
                        |-> Zero32]]
    ELSE mem

insertMemoryValue(addr, value, mem) ==
    LET grown == expandImage(addr, mem)
        at    == ToNat(Shr32(Sub32(addr, grown.startingAddr), 2)) + 1
        prev  == grown.memory[at]
    IN  [grown EXCEPT !.memory[at] = Or32(prev, Shl32(value, (addr[2] % 4) * 8))]

\* addToSystemMemory: stream the image into the page table.  The page of word
\* k is taken from startingAddr + k (the source's i/4), the slot inside the
\* page from startingAddr + 4k.  st is [mem, currentPage].
InvalidPage == 0 - 1

\* the loop body for word k (i = 4k)
addWord(img, st, k) ==
    LET probe == PageOf(Add32(img.startingAddr, U32(k)))
        cur   == IF probe # st.currentPage THEN probe ELSE st.currentPage
        mem1  == IF probe # st.currentPage /\ cur \notin DOMAIN st.mem
                 THEN PutPage(st.mem, cur, NewPage(PageStart(cur), ArraysOf(st.mem)))
                 ELSE st.mem
        a     == Add32(img.startingAddr, U32(4 * k))
    IN  [mem |-> PutPage(mem1, cur, PageStore(mem1[cur], WordIdx(a), img.memory[k + 1])),
         currentPage |-> cur]

\* the loop over words lo .. hi - 1 in order, split in halves (the test on
\* left has TLC finish the first half before it enters the second)
RECURSIVE addWords(_, _, _, _)
addWords(img, st, lo, hi) ==
    IF lo >= hi THEN st
    ELSE IF hi = lo + 1 THEN addWord(img, st, lo)
    ELSE LET mid  == (lo + hi) \div 2
             left == addWords(img, st, lo, mid)
         IN  IF left.currentPage \in Int THEN addWords(img, left, mid, hi) ELSE left

addToSystemMemory(img, mem) ==
    addWords(img, [mem |-> mem, currentPage |-> InvalidPage], 0, Len(img.memory)).mem

\* SystemMemory.memRead, as <<word, initialized>>
memRead(m, addr) ==
    IF PageOf(addr) \notin DOMAIN m THEN <<Zero32, FALSE>>
    ELSE IF WordIdx(addr) \notin m[PageOf(addr)].initialized THEN <<Zero32, FALSE>>
    ELSE <<PageWord(m[PageOf(addr)], WordIdx(addr)), TRUE>>

\* ------------------------------------------------------------------------
\* The emulator instance (emulator.go)
\* ------------------------------------------------------------------------
\* inst is the Go struct `instance`.  A cache is the MemoryPage value
\* [startAddr, alloc, memArr, initArr]: its start address and the arrays its
\* two slices refer to (alloc = TRUE), or the zero MemoryPage of a fresh
\* instance, whose slices are nil (alloc = FALSE, array 0).  The words and
\* the init bits a cache reads and writes are those of its arrays
\* (CachedPage, SliceStore), whichever page of the table refers to them.
\* errors holds the EType of every RuntimeError, in order.  fault and loose
\* are not fields of the Go struct: fault records that the handler raised a
\* Go run-time panic (an index into a nil slice), which ends the process;
\* loose holds the contents of the arrays that no page of the table refers
\* to (array -> words, or array -> init bits).
NilCache == [startAddr |-> Zero32, alloc |-> FALSE, memArr |-> 0, initArr |-> 0]

\* inst.iCache = page, inst.dCache = page: the copy of the MemoryPage struct
\* the table holds for the page of addr, whose slices refer to the arrays of
\* the table's page
CacheOf(mem, addr) ==
    IF PageOf(addr) \notin DOMAIN mem THEN NilCache
    ELSE [startAddr |-> mem[PageOf(addr)].startAddr, alloc |-> TRUE,
          memArr |-> mem[PageOf(addr)].memArr, initArr |-> mem[PageOf(addr)].initArr]

\* the page a cache is: the words of the array c.memArr and the init bits of
\* the array c.initArr
CachedPage(i, c) ==
    [startAddr   |-> c.startAddr,
     memory      |-> IF \E k \in DOMAIN i.memory : i.memory[k].memArr = c.memArr
                     THEN i.memory[CHOOSE k \in DOMAIN i.memory :
                                       i.memory[k].memArr = c.memArr].memory
                     ELSE i.loose[c.memArr],
     initialized |-> IF \E k \in DOMAIN i.memory : i.memory[k].initArr = c.initArr
                     THEN i.memory[CHOOSE k \in DOMAIN i.memory :
                                       i.memory[k].initArr = c.initArr].initialized
                     ELSE i.loose[c.initArr]]

reportError(i, eType) == [i EXCEPT !.errors = Append(@, eType)]

Panic(i) == [i EXCEPT !.fault = TRUE]

\* a memAccess that fills a cache with a copy of the page made with new
\* arrays: the cache and the table share no storage (the variant C25 is
\* tried against)
memAccessCopying(i, addr, isInstr) ==
    LET pg     == PageOf(addr)
        idx    == WordIdx(addr)
        uninit == [v |-> Zero32, ok |-> FALSE,
                   inst |-> reportError(i, eUninitializedMemoryAccess)]
        crash  == [v |-> Zero32, ok |-> FALSE, inst |-> Panic(i)]
        n      == 1 + CHOOSE m \in ArraysOf(i.memory) \cup DOMAIN i.loose :
                         \A o \in ArraysOf(i.memory) \cup DOMAIN i.loose : o <= m
        copy   == [startAddr |-> i.memory[pg].startAddr, alloc |-> TRUE,
                   memArr |-> n, initArr |-> n + 1]
        held   == (n :> i.memory[pg].memory) @@ ((n + 1) :> i.memory[pg].initialized)
                     @@ i.loose
    IN  IF pg = PageOf(i.iCache.startAddr)
        THEN IF ~i.iCache.alloc THEN crash
             ELSE IF idx \notin CachedPage(i, i.iCache).initialized THEN uninit
             ELSE [v |-> PageWord(CachedPage(i, i.iCache), idx), ok |-> TRUE, inst |-> i]
        ELSE IF pg = PageOf(i.dCache.startAddr)
        THEN IF ~i.dCache.alloc THEN crash
             ELSE IF idx \notin CachedPage(i, i.dCache).initialized THEN uninit
             ELSE [v |-> PageWord(CachedPage(i, i.dCache), idx), ok |-> TRUE,
                   inst |-> [i EXCEPT !.dMissed = FALSE]]
        ELSE IF pg \notin DOMAIN i.memory THEN uninit
        ELSE IF idx \notin i.memory[pg].initialized THEN uninit
        ELSE [v |-> PageWord(i.memory[pg], idx), ok |-> TRUE,
              inst |-> IF isInstr
                       THEN [i EXCEPT !.iCache = copy, !.loose = held]
                       ELSE IF i.dMissed
                       THEN [i EXCEPT !.dCache = copy, !.loose = held]
                       ELSE [i EXCEPT !.dMissed = TRUE]]

memAccess(i, addr, isInstr) ==
    LET pg     == PageOf(addr)
        idx    == WordIdx(addr)
        uninit == [v |-> Zero32, ok |-> FALSE,
                   inst |-> reportError(i, eUninitializedMemoryAccess)]
        crash  == [v |-> Zero32, ok |-> FALSE, inst |-> Panic(i)]
    IN  IF pg = PageOf(i.iCache.startAddr)
        THEN IF ~i.iCache.alloc THEN crash
             ELSE IF idx \notin CachedPage(i, i.iCache).initialized THEN uninit
             ELSE [v |-> PageWord(CachedPage(i, i.iCache), idx), ok |-> TRUE, inst |-> i]
        ELSE IF pg = PageOf(i.dCache.startAddr)
        THEN IF ~i.dCache.alloc THEN crash
             ELSE IF idx \notin CachedPage(i, i.dCache).initialized THEN uninit
             ELSE [v |-> PageWord(CachedPage(i, i.dCache), idx), ok |-> TRUE,
                   inst |-> [i EXCEPT !.dMissed = FALSE]]
        ELSE IF pg \notin DOMAIN i.memory THEN uninit
        ELSE IF idx \notin i.memory[pg].initialized THEN uninit
        ELSE [v |-> PageWord(i.memory[pg], idx), ok |-> TRUE,
              inst |-> IF isInstr
                       THEN [i EXCEPT !.iCache = CacheOf(i.memory, addr)]
                       ELSE IF i.dMissed
                       THEN [i EXCEPT !.dCache = CacheOf(i.memory, addr)]
                       ELSE [i EXCEPT !.dMissed = TRUE]]

\* (data & mask) | (old & (mask ^ 0xFFFFFFFF))
MergeWord(old, data, mask) == Or32(And32(data, mask), And32(old, Not32(mask)))

\* page.memory[idx] = (data & mask) | (page.memory[idx] & (mask ^ 0xFFFFFFFF))
\* and the init bit of idx, through the slices of the MemoryPage value c: the
\* word goes to the array c.memArr and the bit to the array c.initArr, and so
\* to every page of the table whose slice refers to that array
SliceStore(i, c, idx, data, mask) ==
    LET w == MergeWord(PageWord(CachedPage(i, c), idx), data, mask)
    IN  [i EXCEPT
           !.memory = [k \in DOMAIN i.memory |->
                          [i.memory[k] EXCEPT
                             !.memory = IF i.memory[k].memArr = c.memArr
                                        THEN (idx :> w) @@ @ ELSE @,
                             !.initialized = IF i.memory[k].initArr = c.initArr
                                             THEN @ \cup {idx} ELSE @]],
           !.loose = [a \in DOMAIN i.loose |->
                          IF a = c.memArr THEN (idx :> w) @@ i.loose[a]
                          ELSE IF a = c.initArr THEN i.loose[a] \cup {idx}
                          ELSE i.loose[a]]]

memWrite(i, addr, data, mask) ==
    LET pg   == PageOf(addr)
        idx  == WordIdx(addr)
        used == ArraysOf(i.memory) \cup DOMAIN i.loose
                  \cup {i.iCache.memArr, i.iCache.initArr, i.dCache.memArr, i.dCache.initArr}
    IN  IF pg = PageOf(i.iCache.startAddr)
        THEN IF ~i.iCache.alloc THEN Panic(i)
             ELSE SliceStore(i, i.iCache, idx, data, mask)
        ELSE IF pg = PageOf(i.dCache.startAddr)
        THEN IF ~i.dCache.alloc THEN Panic(i)
             ELSE [SliceStore(i, i.dCache, idx, data, mask) EXCEPT !.dMissed = FALSE]
        ELSE IF pg \notin DOMAIN i.memory
        THEN LET j == [i EXCEPT !.memory = PutPage(@, pg, NewPage(PageBase(addr), used))]
             IN  SliceStore(j, j.memory[pg], idx, data, mask)
        ELSE SliceStore(i, i.memory[pg], idx, data, mask)

regInitialized(i, reg) == reg \in i.regInit

regAccess(i, reg) ==
    IF reg \notin i.regInit
    THEN [v |-> Zero32, inst |-> reportError(i, eUninitializedRegisterAccess)]
    ELSE [v |-> i.regs[reg], inst |-> i]

\* a regWrite that lacks the test for register 0 (the variant C4 is tried against)
regWriteAny(i, reg, data) ==
    [i EXCEPT !.regInit = @ \cup {reg}, !.regs[reg] = data]

regWrite(i, reg, data) ==
    IF reg = 0
    THEN reportError(i, eIllegalRegisterWrite)
    ELSE [i EXCEPT !.regInit = @ \cup {reg}, !.regs[reg] = data]

\* ------------------------------------------------------------------------
\* Integer division (Go's / and % on uint32 and int32, divisor not zero)
\* ------------------------------------------------------------------------
\* restoring division, bit k of n from 31 down to 0; returns <<quotient, remainder>>
RECURSIVE DivModU(_, _, _, _, _)
DivModU(n, d, k, q, r) ==
    IF k < 0 THEN <<q, r>>
    ELSE LET r2 == Add32(Add32(r, r), <<0, Shr32(n, k)[2] % 2>>)
             ge == IsNeg32(r) \/ ~LtU32(r2, d)
         IN  DivModU(n, d, k - 1,
                     IF ge THEN Add32(q, Shl32(One32, k)) ELSE q,
                     IF ge THEN Sub32(r2, d) ELSE r2)

DivU32(a, b) == DivModU(a, b, 31, Zero32, Zero32)[1]
ModU32(a, b) == DivModU(a, b, 31, Zero32, Zero32)[2]
Abs32(a)     == IF IsNeg32(a) THEN Neg32(a) ELSE a
\* truncating division of the int32 reinterpretations, wrapping like Go
DivS32(a, b) ==
    LET q == DivU32(Abs32(a), Abs32(b))
    IN  IF IsNeg32(a) # IsNeg32(b) THEN Neg32(q) ELSE q
ModS32(a, b) ==
    LET r == ModU32(Abs32(a), Abs32(b))
    IN  IF IsNeg32(a) THEN Neg32(r) ELSE r

\* ------------------------------------------------------------------------
\* Instruction execution
\* ------------------------------------------------------------------------
SetLess(c) == IF c THEN One32 ELSE Zero32

\* regWrite(z, f(regAccess(x), regAccess(y))), operands read left to right
RBinary(i, x, y, z, f(_, _)) ==
    LET a == regAccess(i, x)
        b == regAccess(a.inst, y)
    IN  regWrite(b.inst, z, f(a.v, b.v))

\* regWrite(z, f(regAccess(x), k)), k a shift amount or an immediate
RWith(i, x, z, k, f(_, _)) ==
    LET a == regAccess(i, x)
    IN  regWrite(a.inst, z, f(a.v, k))

\* amt := regAccess(y); report if amt > 31; regWrite(z, f(regAccess(x), amt & 0x1F))
RShiftV(i, x, y, z, f(_, _)) ==
    LET amt == regAccess(i, y)
        i1  == IF LtU32(<<0, 31>>, amt.v) THEN reportError(amt.inst, eShiftOverflow)
               ELSE amt.inst
        a   == regAccess(i1, x)
    IN  regWrite(a.inst, z, f(a.v, amt.v[2] % 32))

\* lo = x / y; hi = x % y: each line reads both registers again
RDivide(i, x, y, quot(_, _), rem(_, _)) ==
    LET a1 == regAccess(i, x)
        b1 == regAccess(a1.inst, y)
        a2 == regAccess(b1.inst, x)
        b2 == regAccess(a2.inst, y)
    IN  IF b1.v = Zero32 THEN Panic(b1.inst)
        ELSE [b2.inst EXCEPT !.lo = quot(a1.v, b1.v), !.hi = rem(a2.v, b2.v),
                              !.hiLoFilled = TRUE]

\* res := ext(regAccess(x)) * ext(regAccess(y)); hi = uint32(res >> 32); lo = uint32(res)
RMultiply(i, x, y, ext(_)) ==
    LET a   == regAccess(i, x)
        b   == regAccess(a.inst, y)
        res == Mul64(ext(a.v), ext(b.v))
    IN  [b.inst EXCEPT !.hi = Hi32Of64(res), !.lo = Lo32Of64(res), !.hiLoFilled = TRUE]

\* int64(v) of a uint32 v, and uint64(v): both conversions keep the value
Int64OfUint32(v)  == ZeroExt64(v)
Uint64OfUint32(v) == ZeroExt64(v)

RMoveFrom(i, z, v) ==
    regWrite(IF ~i.hiLoFilled THEN reportError(i, eHiLoUninitializedAccess) ELSE i, z, v)

executeRType(i, x, y, z, fn, shift) ==
    CASE fn = fnADD   -> RBinary(i, x, y, z, Add32)
      [] fn = fnADDU  -> RBinary(i, x, y, z, Add32)
      [] fn = fnAND   -> RBinary(i, x, y, z, And32)
      [] fn = fnDIV   -> RDivide(i, x, y, DivS32, ModS32)
      [] fn = fnDIVU  -> RDivide(i, x, y, DivU32, ModU32)
      [] fn = fnJR    -> LET a == regAccess(i, x)
                         IN  [a.inst EXCEPT !.pc = Sub32(a.v, Four32)]
      [] fn = fnMFHI  -> RMoveFrom(i, z, i.hi)
      [] fn = fnMFLO  -> RMoveFrom(i, z, i.lo)
      [] fn = fnMULT  -> RMultiply(i, x, y, Int64OfUint32)
      [] fn = fnMULTU -> RMultiply(i, x, y, Uint64OfUint32)
      [] fn = fnXOR   -> RBinary(i, x, y, z, Xor32)
      [] fn = fnOR    -> RBinary(i, x, y, z, Or32)
      [] fn = fnSLT   -> RBinary(i, x, y, z, LAMBDA p, q : SetLess(LtS32(p, q)))
      [] fn = fnSLTU  -> RBinary(i, x, y, z, LAMBDA p, q : SetLess(LtU32(p, q)))
      [] fn = fnSLL   -> RWith(i, x, z, shift[2], Shl32)
      [] fn = fnSRL   -> RWith(i, x, z, shift[2], Shr32)
      [] fn = fnSRA   -> RWith(i, x, z, shift[2], Sra32)
      [] fn = fnSLLV  -> RShiftV(i, x, y, z, Shl32)
      [] fn = fnSRLV  -> RShiftV(i, x, y, z, Shr32)
      [] fn = fnSRAV  -> RShiftV(i, x, y, z, Sra32)
      [] fn = fnSUB   -> RBinary(i, x, y, z, Sub32)
      [] fn = fnSUBU  -> RBinary(i, x, y, z, Sub32)
      [] OTHER        -> reportError(i, eInvalidInstruction)

\* The scenario context is [kind |-> "none"] on a fresh instance (a nil
\* interface), a Project1 record after swi 582 and a Project1Fa21 record
\* after swi 598.  math/rand is an input: the field rand of the instance
\* holds the values the generator delivers to the setup interrupts,
\*   squares  the successive results of rand.Intn(65536),
\*   offset   rand.Intn(8), flip  rand.Intn(2), rot  rand.Intn(4),
\*   pile     the outcome of the pile generation of swi 598.
NoContext == [kind |-> "none"]

\* a local variable of a Go function: v is computed once and the rest of the
\* function, F, works on its value
Local(v, F(_)) == CHOOSE r \in {F(x) : x \in {v}} : TRUE

NoAnswer == <<4660, 22136>>           \* 0x12345678

Pow2(n) == 2 ^ n

\* t & (0x3 << sh), for a 16-bit t
Masked(t, sh) == ((t \div Pow2(sh)) % 4) * Pow2(sh)

\* genSquare's test of sample t at cell i: TRUE when the sample is rejected
Contiguous(t, i) == Masked(t, (i * 2) % 16) = Masked(t, (i * 2 + 2) % 16) \div 4

\* the samples genSquare returns
AcceptsSquare(t) == \A i \in 0..7 : ~Contiguous(t, i)

\* genSquare on the tape of samples from position pos on: the first accepted
\* sample and the position after it (ok = FALSE when the tape runs out)
RECURSIVE genSquare(_, _)
genSquare(tape, pos) ==
    IF pos > Len(tape) THEN [ok |-> FALSE, t |-> 0, pos |-> pos]
    ELSE IF AcceptsSquare(tape[pos]) THEN [ok |-> TRUE, t |-> tape[pos], pos |-> pos + 1]
    ELSE genSquare(tape, pos + 1)

\* square = (square >> n) | ((square & (2^n - 1)) << (16 - n)), n = 4, 8, 12
RotateSquare(sq, n) == (sq \div Pow2(n)) + (sq % Pow2(n)) * Pow2(16 - n)

\* the flip of both testSolution and genSolution:
\* buf[i] = (sq >> 2i) & 3; then eight times sq = (sq << 2) | buf[(i+1) % 8]
RECURSIVE FlipFrom(_, _, _)
FlipFrom(buf, i, acc) ==
    IF i > 7 THEN acc ELSE FlipFrom(buf, i + 1, acc * 4 + buf[(i + 1) % 8])

FlipSquare(sq) == FlipFrom([i \in 0..7 |-> (sq \div Pow2(2 * i)) % 4], 0, 0)

\* testSolution: four quarter turns, the flip, four quarter turns
RECURSIVE TurnsTo(_, _, _)
TurnsTo(sq, reference, n) ==
    IF n = 0 THEN FALSE
    ELSE LET r == RotateSquare(sq, 4)
         IN  r = reference \/ TurnsTo(r, reference, n - 1)

RECURSIVE Turned(_, _)
Turned(sq, n) == IF n = 0 THEN sq ELSE Turned(RotateSquare(sq, 4), n - 1)

testSolution(reference, sq) ==
    TurnsTo(sq, reference, 4) \/ TurnsTo(FlipSquare(Turned(sq, 4)), reference, 4)

\* genSolution: the offset, the flip and the rotation are drawn in this order
genSolution(reference, rnd) ==
    LET flipped == rnd.flip = 0
        sol0    == IF flipped THEN FlipSquare(reference) ELSE reference
        sol     == IF rnd.rot = 0 THEN sol0 ELSE RotateSquare(sol0, 4 * rnd.rot)
    IN  [SolutionOffset |-> 4 * rnd.offset, SolutionFlipped |-> flipped,
         SolutionRotation |-> rnd.rot, sol |-> sol]

\* the dummy square of one slot: samples are drawn until one is no solution
RECURSIVE genDummy(_, _, _)
genDummy(reference, tape, pos) ==
    Local(genSquare(tape, pos), LAMBDA g :
        IF ~g.ok THEN g
        ELSE IF ~testSolution(reference, g.t) THEN g
        ELSE genDummy(reference, tape, g.pos))

\* one slot of the loop of swi582; st = [inst, cand, pos, ok]
genSlot(st, k, a, reference, tape) ==
    Local(genDummy(reference, tape, st.pos), LAMBDA g :
        IF ~g.ok THEN [st EXCEPT !.ok = FALSE]
        ELSE [inst |-> memWrite(st.inst, Add32(Add32(a, U32(k * 4)), Four32),
                                <<0, g.t>>, Ones32),
              cand |-> [st.cand EXCEPT ![k] = g.t],
              pos  |-> g.pos, ok |-> TRUE])

\* the loop of swi582 over the eight slots, from slot k on
RECURSIVE genDummies(_, _, _, _, _, _)
genDummies(st, k, a, reference, solSlot, tape) ==
    IF k > 7 \/ ~st.ok THEN st
    ELSE IF k = solSlot THEN genDummies(st, k + 1, a, reference, solSlot, tape)
    ELSE Local(genSlot(st, k, a, reference, tape), LAMBDA next :
             genDummies(next, k + 1, a, reference, solSlot, tape))

\* the context swi582 leaves
NewProject1(ref, gs, cand) ==
    [kind |-> "Project1", Reference |-> <<0, ref>>,
     Candidates |-> [k \in 0..7 |-> <<0, cand[k]>>],
     SolutionOffset |-> U32(gs.SolutionOffset),
     SolutionRotation |-> gs.SolutionRotation,
     SolutionFlipped |-> gs.SolutionFlipped,
     ReportedOffset |-> NoAnswer]

\* the stores of the reference and of the solution, then the dummies
swi582Stores(i1, ref, gs, tape) ==
    Local(memWrite(memWrite(i1, i1.regs[1], <<0, ref.t>>, Ones32),
                   Add32(Add32(i1.regs[1], Four32), U32(gs.SolutionOffset)),
                   <<0, gs.sol>>, Ones32), LAMBDA i3 :
        genDummies([inst |-> i3,
                    cand |-> (gs.SolutionOffset \div 4 :> gs.sol) @@ [k \in 0..7 |-> 0],
                    pos |-> ref.pos, ok |-> ref.ok],
                   0, i1.regs[1], ref.t, gs.SolutionOffset \div 4, tape))

\* swi582: [inst, ok]; ok = FALSE when the tape of samples does not suffice
swi582Run(i) ==
    Local(IF ~regInitialized(i, 1)
          THEN reportError(i, eSoftwareInterruptParameter) ELSE i, LAMBDA i1 :
    Local(genSquare(i.rand.squares, 1), LAMBDA ref :
    Local(genSolution(ref.t, i.rand), LAMBDA gs :
    Local(swi582Stores(i1, ref, gs, i.rand.squares), LAMBDA st :
        [ok   |-> st.ok,
         inst |-> [st.inst EXCEPT !.swiContext = NewProject1(ref.t, gs, st.cand)]]))))

swi582(i) == swi582Run(i).inst

\* a grading interrupt that accepts any context (the variant C15 is tried
\* against)
swi583Lenient(i) ==
    IF i.swiContext.kind # "Project1" THEN regWrite(i, 6, Zero32)
    ELSE regWrite(i, 6, i.swiContext.SolutionOffset)

swi583(i) ==
    IF i.swiContext.kind # "Project1"
    THEN reportError(i, eInvalidSoftwareInterrupt)
    ELSE LET i1 == IF ~regInitialized(i, 1)
                   THEN reportError(i, eSoftwareInterruptParameter) ELSE i
             r  == regAccess(i1, 3)
             i2 == [r.inst EXCEPT !.swiContext.ReportedOffset = r.v]
         IN  IF LtU32(<<0, 28>>, r.v) \/ r.v[2] % 4 # 0
             THEN reportError(i2, eSoftwareInterruptParameterValue)
             ELSE regWrite(i2, 6, i2.swiContext.SolutionOffset)

\* ---- scenario Project1Fa21 (swi 598 and swi 599) ----
\* The pile is a 64 x 64 picture of one byte per pixel, four pixels to a
\* word.  It is kept as the sequence of the lines plotted so far; a pixel has
\* the color of the last line that covers it.
Covers(ln, x, y) ==
    IF ln.horz THEN y = ln.at /\ ln.from <= x /\ x <= ln.to
    ELSE x = ln.at /\ ln.from <= y /\ y <= ln.to

RECURSIVE getPointFrom(_, _, _, _)
getPointFrom(lines, k, x, y) ==
    IF k = 0 THEN 0
    ELSE IF Covers(lines[k], x, y) THEN lines[k].color
    ELSE getPointFrom(lines, k - 1, x, y)

getPoint(lines, x, y) == getPointFrom(lines, Len(lines), x, y)

\* Pile[w]: the pixels 4 * (w % 16) .. + 3 of row w \div 16, lowest byte first
PileWord(lines, w) ==
    LET y == w \div 16
        x == (w % 16) * 4
    IN  <<getPoint(lines, x + 3, y) * K8 + getPoint(lines, x + 2, y),
          getPoint(lines, x + 1, y) * K8 + getPoint(lines, x, y)>>

\* the attempts at one line of a part: up to 10 samples from the tape of
\* positions; g = [lines, alloc, got, pos, ok]
RECURSIVE lineAttempts(_, _, _, _, _)
lineAttempts(g, a, tape, origin, mk) ==
    IF a >= 10 THEN g
    ELSE IF g.pos > Len(tape) THEN [g EXCEPT !.ok = FALSE]
    ELSE IF (tape[g.pos] + origin) \notin g.alloc
            /\ (tape[g.pos] + origin - 1) \notin g.alloc
            /\ (tape[g.pos] + origin + 1) \notin g.alloc
         THEN [g EXCEPT !.alloc = @ \cup {tape[g.pos] + origin},
                        !.lines = Append(@, mk[tape[g.pos] + origin]),
                        !.got = Append(@, tape[g.pos]),
                        !.pos = @ + 1]
         ELSE Local([g EXCEPT !.pos = @ + 1], LAMBDA next :
                  lineAttempts(next, a + 1, tape, origin, mk))

RECURSIVE linesOfPart(_, _, _, _, _, _)
linesOfPart(g, i, target, tape, origin, mk) ==
    IF i >= target \/ ~g.ok THEN g
    ELSE Local(lineAttempts(g, 0, tape, origin, mk), LAMBDA next :
             linesOfPart(next, i + 1, target, tape, origin, mk))

MinSpacing(ls) ==
    LET gaps == {IF ls[q[1]] > ls[q[2]] THEN ls[q[1]] - ls[q[2]] ELSE ls[q[2]] - ls[q[1]]
                   : q \in {q \in (1..Len(ls)) \X (1..Len(ls)) : q[1] # q[2]}}
    IN  IF gaps = {} THEN 64 ELSE CHOOSE m \in gaps : \A n \in gaps : m <= n

HasExtreme(ls, size) == \E i \in 1..Len(ls) : ls[i] = 0 \/ ls[i] = size - 1

HLine(y, tlx, width, color) ==
    [horz |-> TRUE, at |-> y, from |-> tlx, to |-> tlx + width - 1, color |-> color]

VLine(x, tly, height, color) ==
    [horz |-> FALSE, at |-> x, from |-> tly, to |-> tly + height - 1, color |-> color]

\* what generatePart records for the target part
TargetPart(p, hs, vs, d) ==
    [p EXCEPT
        !.HorzLineCount = Len(hs), !.VertLineCount = Len(vs),
        !.Spacing = IF MinSpacing(hs) = 2 /\ MinSpacing(vs) = 2 THEN "Both"
                    ELSE IF MinSpacing(hs) = 2 THEN "Horz"
                    ELSE IF MinSpacing(vs) = 2 THEN "Vert" ELSE "None",
        !.Geometry = IF HasExtreme(hs, d.h + 25) /\ HasExtreme(vs, d.w + 25) THEN "L"
                     ELSE IF HasExtreme(hs, d.h + 25) \/ HasExtreme(vs, d.w + 25) THEN "T"
                     ELSE "None",
        !.hLines = hs, !.vLines = vs, !.tlx = d.x + 1, !.tly = d.y + 1]

\* generatePart on the samples d = [w, h, x, y, ys, xs]: width = d.w + 25,
\* height = d.h + 25, tlx = d.x + 1, tly = d.y + 1; p = [lines, horzAllocs,
\* vertAllocs, ok, valid] and the fields of the target part
generatePart(p, color, isTarget, d) ==
    Local(linesOfPart([lines |-> p.lines, alloc |-> p.horzAllocs, got |-> << >>,
                       pos |-> 1, ok |-> TRUE],
                      0, (d.h + 25) \div 12, d.ys, d.y + 1,
                      [yy \in 0..64 |-> HLine(yy, d.x + 1, d.w + 25, color)]), LAMBDA hs :
    Local(linesOfPart([lines |-> hs.lines, alloc |-> p.vertAllocs, got |-> << >>,
                       pos |-> 1, ok |-> hs.ok],
                      0, (d.w + 25) \div 12, d.xs, d.x + 1,
                      [xx \in 0..64 |-> VLine(xx, d.y + 1, d.h + 25, color)]), LAMBDA vs :
    Local([p EXCEPT !.lines = vs.lines, !.horzAllocs = hs.alloc,
                    !.vertAllocs = vs.alloc, !.ok = vs.ok], LAMBDA drawn :
        IF ~vs.ok THEN drawn
        ELSE IF Len(vs.got) = 0 \/ Len(hs.got) = 0 THEN [drawn EXCEPT !.valid = FALSE]
        ELSE IF ~isTarget THEN drawn
        ELSE TargetPart(drawn, hs.got, vs.got, d))))

\* the order of the colors: samples of rand.Intn(7) + 1, repeated ones skipped
RECURSIVE pileColors(_, _, _)
pileColors(tape, k, colors) ==
    IF Len(colors) = 7 \/ k > Len(tape) THEN colors
    ELSE IF \E j \in 1..Len(colors) : colors[j] = tape[k] + 1
         THEN pileColors(tape, k + 1, colors)
         ELSE Local(Append(colors, tape[k] + 1), LAMBDA next :
                  pileColors(tape, k + 1, next))

RECURSIVE pileParts(_, _, _, _)
pileParts(p, colors, k, d) ==
    IF k > Len(colors) \/ ~p.ok \/ ~p.valid THEN p
    ELSE Local(generatePart(p, colors[k], colors[k] = p.TargetColor, d.parts[k]),
               LAMBDA next : pileParts(next, colors, k + 1, d))

\* generatePile on the samples d = [colors, parts]
generatePile(p, d) ==
    Local(pileColors(d.colors, 1, << >>), LAMBDA colors :
        IF Len(colors) < 7
        THEN [p EXCEPT !.lines = << >>, !.horzAllocs = {}, !.vertAllocs = {}, !.ok = FALSE]
        ELSE pileParts([p EXCEPT !.lines = << >>, !.horzAllocs = {}, !.vertAllocs = {}],
                       colors, 1, d))

SetMin(S, none) == IF S = {} THEN none ELSE CHOOSE m \in S : \A n \in S : m <= n
SetMax(S, none) == IF S = {} THEN none ELSE CHOOSE m \in S : \A n \in S : m >= n

\* the end of validatePile, for the bounding box [minX, maxX] x [minY, maxY]
BoxChecked(p, minX, maxX, minY, maxY) ==
    LET horzObscured ==
            \E k \in 1..Len(p.hLines) :
                \/ getPoint(p.lines, minX, p.hLines[k] + p.tly) # p.TargetColor
                \/ getPoint(p.lines, maxX, p.hLines[k] + p.tly) # p.TargetColor
        vertObscured ==
            \E k \in 1..Len(p.vLines) :
                \/ getPoint(p.lines, p.vLines[k] + p.tlx, minY) # p.TargetColor
                \/ getPoint(p.lines, p.vLines[k] + p.tlx, maxY) # p.TargetColor
    IN  IF maxX - minX + 1 < 25 \/ maxY - minY + 1 < 25 THEN [p EXCEPT !.valid = FALSE]
        ELSE [p EXCEPT !.Solution = <<minY * 64 + minX, maxY * 64 + maxX>>,
                       !.Obscurity = IF horzObscured /\ vertObscured THEN "Both"
                                     ELSE IF horzObscured THEN "Horz"
                                     ELSE IF vertObscured THEN "Vert" ELSE "None"]

\* validatePile: the bounding box of the target color, the solution and the
\* obscurity; valid = FALSE when the box is under 25 x 25
validatePile(p) ==
    Local({q \in (1..62) \X (1..62) : getPoint(p.lines, q[1], q[2]) = p.TargetColor},
          LAMBDA pts :
              BoxChecked(p, SetMin({q[1] : q \in pts}, 64), SetMax({q[1] : q \in pts}, 0),
                         SetMin({q[2] : q \in pts}, 64), SetMax({q[2] : q \in pts}, 0)))

\* the generation loop of swi598 over the successive attempts
RECURSIVE firstPile(_, _, _)
firstPile(p, piles, k) ==
    IF k > Len(piles) THEN [p EXCEPT !.ok = FALSE]
    ELSE Local(generatePile([p EXCEPT !.valid = TRUE], piles[k]), LAMBDA g :
         Local(IF g.ok /\ g.valid THEN validatePile(g) ELSE g, LAMBDA v :
             IF ~v.ok THEN v
             ELSE IF v.valid THEN v
             ELSE firstPile(v, piles, k + 1)))

NewProject1Fa21(color) ==
    [kind |-> "Project1Fa21", TargetColor |-> color, Solution |-> Zero32,
     ReportedAnswer |-> NoAnswer, Obscurity |-> "None", Spacing |-> "None",
     Geometry |-> "None", HorzLineCount |-> 0, VertLineCount |-> 0,
     lines |-> << >>, horzAllocs |-> {}, vertAllocs |-> {},
     vLines |-> << >>, hLines |-> << >>, tlx |-> 0, tly |-> 0,
     ok |-> TRUE, valid |-> TRUE]

\* for i := 0; 1024 > i; i++ { inst.memWrite(memLoc+uint32(i)*4, p.Pile[i], ...) }
RECURSIVE storePile(_, _, _, _, _)
storePile(i, lines, memLoc, lo, hi) ==
    IF lo >= hi THEN i
    ELSE IF hi = lo + 1
    THEN memWrite(i, Add32(memLoc, U32(lo * 4)), PileWord(lines, lo), Ones32)
    ELSE Local(storePile(i, lines, memLoc, lo, (lo + hi) \div 2), LAMBDA left :
             storePile(left, lines, memLoc, (lo + hi) \div 2, hi))

\* swi598: [inst, ok]; ok = FALSE when the samples do not suffice
swi598Run(i) ==
    Local(IF ~regInitialized(i, 1)
          THEN reportError(i, eSoftwareInterruptParameter) ELSE i, LAMBDA i1 :
    Local(firstPile(NewProject1Fa21(i.rand.color + 1), i.rand.piles, 1), LAMBDA p :
    Local(regAccess(regWrite(i1, 3, U32(i.rand.color + 1)), 1), LAMBDA r :
    Local(storePile(r.inst, p.lines, r.v, 0, 1024), LAMBDA stored :
        [ok |-> p.ok, inst |-> [stored EXCEPT !.swiContext = p]]))))

swi598(i) == swi598Run(i).inst

swi599(i) ==
    IF i.swiContext.kind # "Project1Fa21"
    THEN reportError(i, eInvalidSoftwareInterrupt)
    ELSE LET i1 == IF ~regInitialized(i, 1)
                   THEN reportError(i, eSoftwareInterruptParameter) ELSE i
             r  == regAccess(i1, 2)
             i2 == [r.inst EXCEPT !.swiContext.ReportedAnswer = r.v]
         IN  IF r.v[2] > 4096 \/ r.v[1] > 4096
             THEN reportError(i2, eSoftwareInterruptParameterValue)
             ELSE regWrite(i2, 3, i2.swiContext.Solution)

\* a dispatch that reports the codes it does not know (the variant C14 is
\* tried against)
dispatchReporting(i, iCode) ==
    CASE iCode = 582 -> swi582(i)
      [] iCode = 583 -> swi583(i)
      [] iCode = 598 -> swi598(i)
      [] iCode = 599 -> swi599(i)
      [] OTHER       -> reportError(i, eInvalidSoftwareInterrupt)

dispatchSoftwareInterrupt(i, iCode) ==
    CASE iCode = 582 -> swi582(i)
      [] iCode = 583 -> swi583(i)
      [] iCode = 598 -> swi598(i)
      [] iCode = 599 -> swi599(i)
      [] OTHER       -> i

\* the immediate in use by op: the source sign-extends it for ADDI and ADDIU
\* only and passes the decoded 16-bit value everywhere else
ImmADDI(imm)   == SExt16(imm[2])
ImmSLTI(imm)   == imm
ImmOffset(imm) == imm

ILoad(i, x, z, imm, conv(_, _)) ==
    LET base == regAccess(i, x)
        a    == Add32(base.v, ImmOffset(imm))
        m    == memAccess(base.inst, a, FALSE)
    IN  regWrite(m.inst, z, conv(m.v, a))

executeIType(i, op, x, z, imm) ==
    CASE op = opADDI  -> RWith(i, x, z, ImmADDI(imm), Add32)
      [] op = opADDIU -> RWith(i, x, z, ImmADDI(imm), Add32)
      [] op = opANDI  -> RWith(i, x, z, imm, And32)
      [] op = opBEQ   -> LET a == regAccess(i, z)
                             b == regAccess(a.inst, x)
                         IN  IF a.v = b.v
                             THEN [b.inst EXCEPT !.pc = Sub32(Shl32(imm, 2), Four32)]
                             ELSE b.inst
      [] op = opBNE   -> LET a == regAccess(i, z)
                             b == regAccess(a.inst, x)
                         IN  IF a.v # b.v
                             THEN [b.inst EXCEPT !.pc = Sub32(Shl32(imm, 2), Four32)]
                             ELSE b.inst
      [] op = opLB    -> ILoad(i, x, z, imm, LAMBDA v, a : SExt8(ByteLane(v, a[2] % 4)))
      [] op = opLBU   -> ILoad(i, x, z, imm, LAMBDA v, a : <<0, ByteLane(v, a[2] % 4)>>)
      [] op = opLW    -> ILoad(i, x, z, imm, LAMBDA v, a : v)
      [] op = opLUI   -> regWrite(i, z, <<imm[2], 0>>)
      [] op = opORI   -> RWith(i, x, z, imm, Or32)
      [] op = opSB    -> LET base == regAccess(i, x)
                             a    == Add32(base.v, ImmOffset(imm))
                             src  == regAccess(base.inst, z)
                             lane == (a[2] % 4) * 8
                         IN  memWrite(src.inst, a, Shl32(<<0, src.v[2] % K8>>, lane),
                                      Shl32(<<0, 255>>, lane))
      [] op = opSLTI  -> RWith(i, x, z, ImmSLTI(imm), LAMBDA p, q : SetLess(LtS32(p, q)))
      [] op = opSLTIU -> RWith(i, x, z, imm, LAMBDA p, q : SetLess(LtU32(p, q)))
      [] op = opSW    -> LET base == regAccess(i, x)
                             a    == Add32(base.v, ImmOffset(imm))
                             src  == regAccess(base.inst, z)
                         IN  memWrite(src.inst, a, src.v, Ones32)
      [] op = opSWI   -> dispatchSoftwareInterrupt(i, imm[2])
      [] OTHER        -> reportError(i, eInvalidInstruction)

executeJType(i, op, imm) ==
    IF op = opJ
    THEN [i EXCEPT !.pc = Sub32(Shl32(imm, 2), Four32)]
    ELSE LET w == regWrite(i, 31, Add32(i.pc, <<0, 8>>))
         IN  [w EXCEPT !.pc = Sub32(Shl32(imm, 2), Four32)]

\* ------------------------------------------------------------------------
\* Emulate: reset, the terminal test and one iteration of the loop
\* ------------------------------------------------------------------------
SentinelPC == Ones32                  \* 0xFFFFFFFF, seeded into $31
StackSeed  == <<16, 0>>               \* 0x00100000, seeded into $29

\* the samples of math/rand when no setup interrupt is going to draw any
NoSamples == [squares |-> << >>, offset |-> 0, flip |-> 0, rot |-> 0,
              color |-> 0, piles |-> << >>]

NewInstance(startAddr, mem, limit) ==
    [memory       |-> mem,
     pc           |-> <<startAddr[1], startAddr[2] - (startAddr[2] % 4)>>,
     regs         |-> [r \in 0..31 |-> IF r = 31 THEN SentinelPC
                                       ELSE IF r = 29 THEN StackSeed ELSE Zero32],
     regInit      |-> {0, 29, 31},
     hiLoFilled   |-> FALSE,
     hi           |-> Zero32,
     lo           |-> Zero32,
     iCache       |-> NilCache,
     dCache       |-> NilCache,
     dMissed      |-> FALSE,
     di           |-> 0,
     runtimeLimit |-> limit,
     swiContext   |-> NoContext,
     errors       |-> << >>,
     fault        |-> FALSE,
     loose        |-> << >>,
     rand         |-> NoSamples]

\* an exit test with the budget off by one (the variant C7 is tried against)
TerminalLate(i, tol) ==
    i.pc = SentinelPC \/ Len(i.errors) >= tol \/ i.di > i.runtimeLimit + 1

\* the loop's exit test
Terminal(i, tol) ==
    i.pc = SentinelPC \/ Len(i.errors) >= tol \/ i.di > i.runtimeLimit

\* what the exit branch appends before the break
ExitReport(i, tol) ==
    IF Len(i.errors) >= tol THEN reportError(i, eErrorLimitReached)
    ELSE IF i.di > i.runtimeLimit THEN reportError(i, eRuntimeLimitExceeded)
    ELSE i

\* an end of iteration that forgets to count (the variant C1 is tried against)
AdvanceNoCount(i) == [i EXCEPT !.pc = Add32(@, Four32)]

\* inst.pc += 4; inst.di++ (in either order), on both paths of the loop
Advance(i) == [i EXCEPT !.pc = Add32(@, Four32), !.di = @ + 1]

Dispatch(i, instr) ==
    LET d == decodeInstruction(instr)
    IN  IF instr = Zero32 THEN i
        ELSE IF d.op = 0 THEN executeRType(i, d.x, d.y, d.z, d.fn, d.imm)
        ELSE IF d.op = opJ \/ d.op = opJAL THEN executeJType(i, d.op, d.imm)
        ELSE executeIType(i, d.op, d.x, d.z, d.imm)

LoopBody(i) ==
    LET f == memAccess(i, i.pc, TRUE)
    IN  IF ~f.ok THEN Advance(f.inst)
        ELSE Advance(Dispatch(f.inst, f.v))

\* ------------------------------------------------------------------------
\* Text emission of the assembler, from tokenized lines
\* ------------------------------------------------------------------------
\* A text line is [op |-> mnemonic as written, r |-> the register operands in
\* source order (the number written after '$' or 't'), v |-> the literal
\* operand as getLiteralValue returns it].  A mnemonic that takes a literal
\* is written with it, so its line has one field more than it has registers
\* (lw and its kin write the last register inside the literal's field).

\* strings.ToLower on the ASCII letters, one character at a time
RECURSIVE ToLower(_)
ToLower(s) ==
    LET lower(c) ==
          CASE c = "A" -> "a" [] c = "B" -> "b" [] c = "C" -> "c" [] c = "D" -> "d"
            [] c = "E" -> "e" [] c = "F" -> "f" [] c = "G" -> "g" [] c = "H" -> "h"
            [] c = "I" -> "i" [] c = "J" -> "j" [] c = "K" -> "k" [] c = "L" -> "l"
            [] c = "M" -> "m" [] c = "N" -> "n" [] c = "O" -> "o" [] c = "P" -> "p"
            [] c = "Q" -> "q" [] c = "R" -> "r" [] c = "S" -> "s" [] c = "T" -> "t"
            [] c = "U" -> "u" [] c = "V" -> "v" [] c = "W" -> "w" [] c = "X" -> "x"
            [] c = "Y" -> "y" [] c = "Z" -> "z"
            [] OTHER -> c
    IN  IF Len(s) = 0 THEN ""
        ELSE lower(SubSeq(s, 1, 1)) \o ToLower(SubSeq(s, 2, Len(s)))

\* getRegFromString on "$n": the number must lie in 0..31
getRegFromString(n) ==
    IF n < 0 \/ n > 31 THEN [v |-> 0, ok |-> FALSE] ELSE [v |-> n, ok |-> TRUE]

\* extractRTypeInfo: [regs, ok] with regs a [3]int; a wrong operand count
\* gives the zero array, the first bad register stops the loop with the
\* earlier ones kept
extractRTypeInfo(l, num) ==
    IF Len(l.r) # num THEN [regs |-> <<0, 0, 0>>, ok |-> FALSE]
    ELSE LET bad  == {i \in 1..num : ~getRegFromString(l.r[i]).ok}
             stop == IF bad = {} THEN num + 1
                     ELSE CHOOSE i \in bad : \A j \in bad : i <= j
         IN  [regs |-> [i \in 1..3 |-> IF i < stop /\ i <= num THEN l.r[i] ELSE 0],
              ok   |-> bad = {}]

Mask16 == <<K16 - 1, 0>>              \* 0xFFFF0000
Mask18 == <<K16 - 4, 0>>              \* 0xFFFC0000

\* extractStandardITypeInfo: [regs, imm, ok]; two registers and a literal
\* whose masked bits are all clear or all set
extractStandardITypeInfo(l, maxMask) ==
    IF Len(l.r) # 2 THEN [regs |-> <<0, 0>>, imm |-> Zero32, ok |-> FALSE]
    ELSE LET a == getRegFromString(l.r[1])
             b == getRegFromString(l.r[2])
         IN  IF ~a.ok \/ ~b.ok
             THEN [regs |-> <<0, 0>>, imm |-> Zero32, ok |-> FALSE]
             ELSE IF And32(l.v, maxMask) # maxMask /\ And32(l.v, maxMask) # Zero32
             THEN [regs |-> <<a.v, b.v>>, imm |-> Zero32, ok |-> FALSE]
             ELSE [regs |-> <<a.v, b.v>>, imm |-> <<0, l.v[2]>>, ok |-> TRUE]

\* extractSpecialITypeInfo, "$a, v($b)": the literal is returned unmasked.
\* A line with one register is "$a, v": it has the two fields, and fails
\* for its missing parenthesis-wrapped register with the first register kept.
extractSpecialITypeInfo(l) ==
    IF Len(l.r) \notin {1, 2} THEN [regs |-> <<0, 0>>, imm |-> Zero32, ok |-> FALSE]
    ELSE LET a == getRegFromString(l.r[1])
         IN  IF ~a.ok THEN [regs |-> <<0, 0>>, imm |-> Zero32, ok |-> FALSE]
             ELSE IF Len(l.r) = 1 \/ ~getRegFromString(l.r[2]).ok
             THEN [regs |-> <<a.v, 0>>, imm |-> Zero32, ok |-> FALSE]
             ELSE [regs |-> <<a.v, l.r[2]>>, imm |-> l.v, ok |-> TRUE]

\* extractLUIInfo, "$a, v": every failure gives register 0 and value 0
extractLUIInfo(l) ==
    IF Len(l.r) # 1 THEN [reg |-> 0, imm |-> Zero32, ok |-> FALSE]
    ELSE LET a == getRegFromString(l.r[1])
         IN  IF ~a.ok \/ (And32(l.v, Mask16) # Mask16 /\ And32(l.v, Mask16) # Zero32)
             THEN [reg |-> 0, imm |-> Zero32, ok |-> FALSE]
             ELSE [reg |-> a.v, imm |-> l.v, ok |-> TRUE]

\* Each case of the switch gives [w, errs]: the instruction word formed and
\* the number of errors reported for the line.
R3(l, fn) ==
    LET e == extractRTypeInfo(l, 3)
    IN  [w    |-> formRInstruction(0, e.regs[2], e.regs[3], e.regs[1], 0, fn),
         errs |-> IF e.ok THEN 0 ELSE 1]
R2(l, num, fn) ==
    LET e == extractRTypeInfo(l, num)
    IN  [w    |-> formRInstruction(0, e.regs[1], e.regs[2], e.regs[1], 0, fn),
         errs |-> IF e.ok THEN 0 ELSE 1]
I2(l, op) ==
    LET e == extractStandardITypeInfo(l, Mask16)
    IN  [w    |-> formIInstruction(op, e.regs[1], e.regs[2], e.imm),
         errs |-> IF e.ok THEN 0 ELSE 1]
IB(l, op) ==
    LET e == extractStandardITypeInfo(l, Mask18)
    IN  [w    |-> formIInstruction(op, e.regs[1], e.regs[2], Shr32(e.imm, 2)),
         errs |-> IF e.ok THEN 0 ELSE 1]
IM(l, op) ==
    LET e == extractSpecialITypeInfo(l)
    IN  [w    |-> formIInstruction(op, e.regs[1], e.regs[2], e.imm),
         errs |-> IF e.ok THEN 0 ELSE 1]
\* a shift amount above 31 is reported and masked to five bits
SH(l, fn) ==
    LET e == extractStandardITypeInfo(l, Mask16)
        v == e.imm[2]
    IN  [w    |-> formRInstruction(0, e.regs[2], 0, e.regs[1], v % 32, fn),
         errs |-> IF e.ok /\ v <= 31 THEN 0 ELSE 1]

\* the switch of assembleText on the lower-cased mnemonic: the instruction
\* word and the number of errors reported for the line, [w, errs]
assembleInstruction(l) ==
    LET m == ToLower(l.op)
    IN  CASE m = "add"   -> R3(l, fnADD)
          [] m = "addi"  -> I2(l, opADDI)
          [] m = "addu"  -> R3(l, fnADDU)
          [] m = "addiu" -> I2(l, opADDIU)
          [] m = "and"   -> R3(l, fnAND)
          [] m = "andi"  -> I2(l, opANDI)
          [] m = "beq"   -> IB(l, opBEQ)
          [] m = "bne"   -> IB(l, opBNE)
          [] m = "div"   -> R2(l, 2, fnDIV)
          [] m = "divu"  -> R2(l, 2, fnDIVU)
          [] m = "jr"    ->
                LET e == extractRTypeInfo(l, 1)
                IN  [w    |-> formRInstruction(0, e.regs[1], e.regs[3], e.regs[2], 0, fnJR),
                     errs |-> IF e.ok THEN 0 ELSE 1]
          [] m = "mfhi"  -> R2(l, 1, fnMFHI)
          [] m = "mflo"  -> R2(l, 1, fnMFLO)
          [] m = "mult"  -> R2(l, 2, fnMULT)
          [] m = "multu" -> R2(l, 2, fnMULTU)
          [] m = "xor"   -> R3(l, fnXOR)
          [] m = "or"    -> R3(l, fnOR)
          [] m = "ori"   -> I2(l, opORI)
          [] m = "slt"   -> R3(l, fnSLT)
          [] m = "slti"  -> I2(l, opSLTI)
          [] m = "sltiu" -> I2(l, opSLTIU)
          [] m = "sltu"  -> R3(l, fnSLTU)
          [] m = "sll"   -> SH(l, fnSLL)
          [] m = "srl"   -> SH(l, fnSRL)
          [] m = "sra"   -> SH(l, fnSRA)
          [] m = "sllv"  -> R3(l, fnSLLV)
          [] m = "srlv"  -> R3(l, fnSRLV)
          [] m = "srav"  -> R3(l, fnSRAV)
          [] m = "sub"   -> R3(l, fnSUB)
          [] m = "subu"  -> R3(l, fnSUBU)
          [] m = "lw"    -> IM(l, opLW)
          [] m = "lb"    -> IM(l, opLB)
          [] m = "lbu"   -> IM(l, opLBU)
          [] m = "sw"    -> IM(l, opSW)
          [] m = "sb"    -> IM(l, opSB)
          [] m = "j"     -> [w |-> formJInstruction(opJ, Shr32(l.v, 2)), errs |-> 0]
          [] m = "jal"   -> [w |-> formJInstruction(opJAL, Shr32(l.v, 2)), errs |-> 0]
          [] m = "swi"   -> [w |-> formIInstruction(opSWI, 0, 0, l.v), errs |-> 0]
          [] m = "lui"   ->
                LET e == extractLUIInfo(l)
                IN  [w    |-> formIInstruction(opLUI, e.reg, 0, e.imm),
                     errs |-> IF e.ok THEN 0 ELSE 1]
          [] m = "nop"   -> [w |-> Zero32, errs |-> 0]
          [] OTHER       -> [w |-> Zero32, errs |-> 1]

\* assembleText: one word per line, a NOP after a line spelled "jal", and
\* numErrors raised for every line reported; [ret, numErrors]
RECURSIVE emitText(_, _, _, _)
emitText(lines, k, currentAddr, out) ==
    IF k > Len(lines) THEN out
    ELSE Local(assembleInstruction(lines[k]), LAMBDA a :
         Local([ret       |-> insertMemoryValue(currentAddr, a.w, out.ret),
                numErrors |-> out.numErrors + a.errs], LAMBDA one :
             IF lines[k].op = "jal"
             THEN Local([one EXCEPT !.ret = insertMemoryValue(
                              Add32(currentAddr, Four32), Zero32, @)], LAMBDA nop :
                      emitText(lines, k + 1, Add32(currentAddr, <<0, 8>>), nop))
             ELSE emitText(lines, k + 1, Add32(currentAddr, Four32), one)))

assembleText(lines, settings) ==
    emitText(lines, 1, settings.TextStart,
             [ret |-> EmptyImage(settings.TextStart), numErrors |-> 0])

\* ------------------------------------------------------------------------
\* The data pass of the assembler (assembleData)
\* ------------------------------------------------------------------------
\* A data line is [label |-> name, dir |-> the directive as written, vals |->
\* the literals of the line as getLiteralValue returns them].  The pass
\* carries [currentAddr, retMem, labels, numErrors]; labels is a function
\* from the names defined so far to their addresses.
SetLabel(labels, name, addr) == (name :> addr) @@ labels

assembleDataInit(settings) ==
    [currentAddr |-> Sub32(settings.DataStart, One32),
     retMem      |-> EmptyImage(settings.DataStart),
     labels      |-> << >>,
     numErrors   |-> 0]

HighBitsMixed(v, mask) == And32(v, mask) # mask /\ And32(v, mask) # Zero32

\* the loop over the values of a .byte, .halfword or .word line
RECURSIVE dataValues(_, _, _, _)
dataValues(ds, vals, k, dir) ==
    IF k > Len(vals) THEN ds
    ELSE LET v    == vals[k]
             cur  == CASE dir = ".byte" -> Add32(ds.currentAddr, One32)
                       [] dir = ".halfword" ->
                              Add32(ds.currentAddr,
                                    And32(Add32(ds.currentAddr, <<0, 2>>), <<K16 - 1, K16 - 2>>))
                       [] dir = ".word" ->
                              Add32(ds.currentAddr,
                                    And32(Add32(ds.currentAddr, Four32), <<K16 - 1, K16 - 4>>))
             over == CASE dir = ".byte" -> HighBitsMixed(v, <<K16 - 1, K16 - K8>>)
                       [] dir = ".halfword" -> HighBitsMixed(v, <<K16 - 1, 0>>)
                       [] dir = ".word" -> FALSE
             val  == CASE dir = ".byte" -> <<0, v[2] % K8>>
                       [] dir = ".halfword" -> <<0, v[2]>>
                       [] dir = ".word" -> v
         IN  dataValues([ds EXCEPT !.currentAddr = cur,
                                   !.numErrors = @ + (IF over THEN 1 ELSE 0),
                                   !.retMem = insertMemoryValue(cur, val, @)],
                        vals, k + 1, dir)

\* for endAddr := ...; endAddr > currentAddr; currentAddr += step { insert 0 }
RECURSIVE dataFill(_, _, _)
dataFill(ds, endAddr, step) ==
    IF LtU32(ds.currentAddr, endAddr)
    THEN dataFill([ds EXCEPT !.retMem = insertMemoryValue(ds.currentAddr, Zero32, @),
                             !.currentAddr = Add32(@, step)],
                  endAddr, step)
    ELSE ds

\* one iteration of assembleData's loop, for a line of three or more fields
assembleDataLine(ds, l) ==
    LET dir == ToLower(l.dir)
    IN  CASE dir = ".byte" ->
                 dataValues([ds EXCEPT !.labels = SetLabel(@, l.label,
                                                    Add32(ds.currentAddr, One32))],
                            l.vals, 1, dir)
          [] dir = ".halfword" ->
                 dataValues([ds EXCEPT !.labels = SetLabel(@, l.label,
                                 And32(Add32(ds.currentAddr, <<0, 2>>), <<K16 - 1, K16 - 2>>))],
                            l.vals, 1, dir)
          [] dir = ".word" ->
                 dataValues([ds EXCEPT !.labels = SetLabel(@, l.label,
                                 And32(Add32(ds.currentAddr, Four32), <<K16 - 1, K16 - 4>>))],
                            l.vals, 1, dir)
          [] dir = ".space" ->
                 LET cur == Add32(ds.currentAddr, One32)
                     d1  == [ds EXCEPT !.currentAddr = cur,
                                       !.labels = SetLabel(@, l.label, cur)]
                     v   == l.vals[1]
                 IN  IF ~LtU32(v, <<4, 0>>)
                     THEN [d1 EXCEPT !.numErrors = @ + 1]
                     ELSE [dataFill(d1, Add32(cur, v), One32)
                               EXCEPT !.currentAddr = Sub32(@, One32)]
          [] dir = ".alloc" ->
                 LET cur == And32(Add32(ds.currentAddr, Four32), <<K16 - 1, K16 - 4>>)
                     d1  == [ds EXCEPT !.currentAddr = cur,
                                       !.labels = SetLabel(@, l.label, cur)]
                     v   == l.vals[1]
                 IN  IF ~LtU32(v, <<1, 0>>)
                     THEN [d1 EXCEPT !.numErrors = @ + 1]
                     ELSE [dataFill(d1, Add32(cur, Shl32(v, 2)), Four32)
                               EXCEPT !.currentAddr = Sub32(@, Four32)]
          [] OTHER ->
                 [ds EXCEPT !.numErrors = @ + 1,
                            !.labels = SetLabel(@, l.label, ds.currentAddr)]

\* the end of Assemble: the overlap test and the composition, text image first
Overlaps(dataMem, textMem) ==
    \/ /\ LtU32(dataMem.startingAddr, textMem.startingAddr)
       /\ ~LtU32(Add32(dataMem.startingAddr, U32(Len(dataMem.memory))), textMem.startingAddr)
    \/ /\ LtU32(textMem.startingAddr, dataMem.startingAddr)
       /\ ~LtU32(Add32(textMem.startingAddr, U32(Len(textMem.memory))), dataMem.startingAddr)

Compose(textMem, dataMem) ==
    addToSystemMemory(dataMem, addToSystemMemory(textMem, << >>))

\* extractTextLabels: a text line may carry a label; st is the pass state
\* [labels, numErrors] as assembleData left it
TextLabel(l) == IF "label" \in DOMAIN l THEN l.label ELSE ""

RECURSIVE textLabels(_, _, _, _)
textLabels(lines, k, currentAddr, st) ==
    IF k > Len(lines) THEN st
    ELSE LET l    == lines[k]
             name == TextLabel(l)
             seen == IF name # "" /\ name \in DOMAIN st.labels
                     THEN [st EXCEPT !.numErrors = @ + 1] ELSE st
             decl == IF name # ""
                     THEN [seen EXCEPT !.labels = SetLabel(@, name, currentAddr)] ELSE seen
             low  == ToLower(l.op)
             step == IF Len(low) >= 3 /\ SubSeq(low, 1, 3) = "jal"
                     THEN <<0, 8>> ELSE Four32
         IN  textLabels(lines, k + 1, Add32(currentAddr, step), decl)

extractTextLabels(lines, settings, st) == textLabels(lines, 1, settings.TextStart, st)

\* ------------------------------------------------------------------------
\* Guest programs
\* ------------------------------------------------------------------------
MaxLimit == 10        \* runtime limits 0..MaxLimit
MaxChain == 3         \* straight-line guests of 1..MaxChain instructions
DefaultETol == 5      \* the wizard's default error tolerance

Settings == [TextStart |-> <<0, 4096>>, DataStart |-> <<0, 32768>>]

\* getLiteralValue of a decimal literal n, -2^15 <= n < 2^31
Lit(n) == IF n < 0 THEN Neg32(U32(0 - n)) ELSE U32(n)

Line(op, r, v) == [op |-> op, r |-> r, v |-> v]

\* addresses used by the load and store guests
Addrs == << <<0, 0>>,                  \* page 0, first word
            <<0, 4092>>,               \* page 0, last word
            <<0, 4096 + 64>>,          \* the text page, past the program
            <<0, 32768>>,              \* DataStart
            <<15, K16 - 4>>,           \* the word below the stack seed
            <<K15, 0>>,                \* 0x80000000
            <<K16 - 1, K16 - 4>> >>    \* 0xFFFFFFFC

MulOperands == {0 - 32768, 0 - 1, 0, 2, 32767}

S1Text == << Line("addi", <<1, 0>>, Lit(5)),
             Line("addi", <<2, 0>>, Lit(7)),
             Line("add",  <<3, 1, 2>>, Zero32) >>

JrRa == Line("jr", <<31>>, Zero32)

ChainText(n) == [k \in 1..n |-> Line("addi", <<1, IF k = 1 THEN 0 ELSE 1>>, Lit(1))]

LoadAddr(a) == << Line("lui", <<1>>, <<0, a[1]>>),
                  Line("ori", <<1, 1>>, <<0, a[2]>>) >>

\* the address the scenario guests pass to the setup interrupts in $1
ScenarioBase == 8192

\* the page boundary the cache guests load and store around (0x3000)
CacheEdge == 12288

\* the targets of the branch guests: the guest's own jr, DataStart, the last
\* word below 2^16, 2^16 and above, the last word below 2^18, and 2^18
BranchTargets == << <<0, 4096 + 8>>, <<0, 32768>>, <<0, K16 - 4>>, <<1, 0>>,
                    <<1, 4096 + 8>>, <<3, K16 - 4>>, <<4, 0>> >>

\* the base address of the byte guest that stores below the text (0x0FF0)
LowBase == 4080

\* the values the byte guests store with sb
ByteValues == {0, 127, 128, 511, 0 - 1}

\* straight-line guests of register and immediate arithmetic
AluTexts == << << Line("lui",   <<1>>, Lit(1)),
                  Line("ori",   <<2, 1>>, Lit(5)),
                  Line("sll",   <<3, 2>>, Lit(3)),
                  Line("sub",   <<4, 3, 2>>, Zero32),
                  Line("slt",   <<5, 4, 0>>, Zero32),
                  Line("xor",   <<6, 5, 29>>, Zero32) >>,
               << Line("addiu", <<1, 0>>, Lit(0 - 1)),
                  Line("andi",  <<2, 1>>, Lit(255)),
                  Line("srl",   <<3, 1>>, Lit(4)),
                  Line("sra",   <<4, 1>>, Lit(4)),
                  Line("sltu",  <<5, 0, 1>>, Zero32),
                  Line("or",    <<6, 3, 4>>, Zero32) >>,
               << Line("addu",  <<1, 29, 31>>, Zero32),
                  Line("subu",  <<2, 31, 29>>, Zero32),
                  Line("and",   <<3, 1, 2>>, Zero32),
                  Line("sltiu", <<4, 3>>, Lit(7)),
                  Line("slti",  <<5, 3>>, Lit(0 - 1)),
                  Line("SLL",   <<6, 5>>, Lit(31)) >> >>

GuestText(g) ==
    CASE g.k = "s1"      -> S1Text
      [] g.k = "s1jr"    -> S1Text \o <<JrRa>>
      [] g.k = "chain"   -> ChainText(g.a)
      [] g.k = "chainjr" -> ChainText(g.a) \o <<JrRa>>
      [] g.k = "loop"    -> << Line("beq", <<0, 0>>, Settings.TextStart) >>
      [] g.k = "exit"    -> << JrRa >>
      [] g.k = "fall"    -> << Line("addi", <<1, 0>>, Lit(0 - 5)),
                               Line("jr", <<1>>, Zero32) >>
      [] g.k = "store"   -> LoadAddr(Addrs[g.a]) \o
                            << Line("sw", <<29, 1>>, Zero32),
                               Line("lw", <<2, 1>>, Zero32),
                               JrRa >>
      [] g.k = "load"    -> LoadAddr(Addrs[g.a]) \o
                            << Line("lw", <<2, 1>>, Zero32),
                               Line("addi", <<3, 0>>, Lit(1)),
                               JrRa >>
      [] g.k = "loadreg" -> << Line("lw", <<2, 5>>, Zero32),
                               JrRa >>
      [] g.k = "alu"     -> AluTexts[g.a] \o <<JrRa>>
      [] g.k = "zero"    -> << Line("addi", <<4, 0>>, Lit(9)),
                               Line("addi", <<0, 0>>, Lit(5)),
                               Line("swi", << >>, Lit(7)),
                               Line("swi", << >>, Lit(583)),
                               Line("add", <<0, 4, 4>>, Zero32),
                               Line("lui", <<0>>, Lit(1)),
                               Line("mfhi", <<0>>, Zero32),
                               JrRa >>
      [] g.k = "p1"      -> << Line("addi", <<1, 0>>, Lit(ScenarioBase)),
                               Line("swi", << >>, Lit(582)),
                               Line("swi", << >>, Lit(7)),
                               Line("addi", <<3, 0>>, Lit(g.a)),
                               Line("swi", << >>, Lit(583)),
                               Line("swi", << >>, Lit(600)),
                               JrRa >>
      [] g.k = "p1none"  -> << Line("addi", <<1, 0>>, Lit(ScenarioBase)),
                               Line("swi", << >>, Lit(582)),
                               Line("swi", << >>, Lit(581)),
                               JrRa >>
      [] g.k = "p1magic" -> << Line("addi", <<1, 0>>, Lit(ScenarioBase)),
                               Line("swi", << >>, Lit(582)),
                               Line("lui", <<3>>, <<0, NoAnswer[1]>>),
                               Line("ori", <<3, 3>>, <<0, NoAnswer[2]>>),
                               Line("swi", << >>, Lit(583)),
                               JrRa >>
      [] g.k = "p1wrong" -> << Line("addi", <<1, 0>>, Lit(ScenarioBase)),
                               Line("swi", << >>, Lit(582)),
                               Line("addi", <<2, 0>>, Lit(g.a)),
                               Line("swi", << >>, Lit(599)),
                               Line("swi", << >>, Lit(0)),
                               JrRa >>
      [] g.k = "nocontext" -> << Line("addi", <<3, 0>>, Lit(g.a)),
                               Line("swi", << >>, Lit(583)),
                               Line("addi", <<2, 0>>, Lit(g.a)),
                               Line("swi", << >>, Lit(599)),
                               Line("swi", << >>, <<0, K16 - 1>>),
                               JrRa >>
      [] g.k = "p1uninit" -> << Line("swi", << >>, Lit(582)),
                               Line("addi", <<3, 0>>, Lit(g.a)),
                               Line("swi", << >>, Lit(583)),
                               JrRa >>
      [] g.k = "p1spin"  -> << Line("addi", <<1, 0>>, Lit(ScenarioBase)),
                               Line("swi", << >>, Lit(582)),
                               Line("addi", <<3, 0>>, Lit(g.a)),
                               Line("swi", << >>, Lit(583)),
                               Line("beq", <<3, 6>>, Add32(Settings.TextStart, <<0, 24>>)),
                               Line("beq", <<0, 0>>, Add32(Settings.TextStart, <<0, 20>>)),
                               JrRa >>
      [] g.k = "p1store" -> << Line("addi", <<1, 0>>, Lit(ScenarioBase)),
                               Line("swi", << >>, Lit(582)),
                               Line("addi", <<2, 0>>, Settings.TextStart),
                               Line("lw", <<4, 2>>, Lit(64)),
                               Line("sw", <<29, 2>>, Lit(64)),
                               Line("addi", <<3, 0>>, Lit(g.a)),
                               Line("swi", << >>, Lit(583)),
                               JrRa >>
      [] g.k = "fa21"    -> << Line("addi", <<1, 0>>, Lit(ScenarioBase)),
                               Line("swi", << >>, Lit(598)),
                               Line("swi", << >>, Lit(583)),
                               Line("swi", << >>, Lit(601)),
                               Line("lui", <<2>>, <<0, g.a>>),
                               Line("ori", <<2, 2>>, <<0, g.b>>),
                               Line("swi", << >>, Lit(599)),
                               JrRa >>
      [] g.k = "cache"   -> << Line("addi", <<1, 0>>, Lit(CacheEdge - 4)),
                               Line("addi", <<2, 0>>, Lit(CacheEdge)),
                               Line("sw", <<29, 1>>, Zero32),
                               Line("sw", <<29, 2>>, Zero32),
                               Line("lw", <<4, 1>>, Zero32),
                               Line("lw", <<5, g.a>>, Zero32),
                               Line("lw", <<6, 2>>, Zero32),
                               Line("sw", <<6, 2>>, Lit(4)),
                               Line("lw", <<7, g.b>>, Lit(4)),
                               JrRa >>
      [] g.k = "byte"    -> << Line("addi", <<1, 0>>, Lit(CacheEdge)),
                               Line("addi", <<2, 0>>, Lit(g.b)),
                               Line("sw", <<29, 1>>, Zero32),
                               Line("sb", <<2, 1>>, Lit(g.a)),
                               Line("lbu", <<3, 1>>, Lit(g.a)),
                               Line("lb", <<4, 1>>, Lit(g.a)),
                               Line("lw", <<5, 1>>, Zero32),
                               Line("lw", <<6, 1>>, Lit(4)),
                               JrRa >>
      [] g.k = "bytelow" -> << Line("addi", <<1, 0>>, Lit(LowBase)),
                               Line("addi", <<2, 0>>, Lit(g.b)),
                               Line("sb", <<2, 1>>, Lit(g.a)),
                               Line("lbu", <<3, 1>>, Lit(g.a)),
                               JrRa >>
      [] g.k = "beq"     -> << Line("beq", <<0, 0>>, BranchTargets[g.a]),
                               Line("addi", <<1, 0>>, Lit(1)),
                               JrRa >>
      [] g.k = "bne"     -> << Line("bne", <<29, 0>>, BranchTargets[g.a]),
                               Line("addi", <<1, 0>>, Lit(1)),
                               JrRa >>
      [] g.k = "mult"    -> << Line("addi", <<1, 0>>, Lit(g.a)),
                               Line("addi", <<2, 0>>, Lit(g.b)),
                               Line("mult", <<1, 2>>, Zero32),
                               Line("mfhi", <<3>>, Zero32),
                               Line("multu", <<1, 2>>, Zero32),
                               Line("mflo", <<4>>, Zero32),
                               JrRa >>
      [] g.k = "imm"     -> << Line("addi", <<1, 0>>, Lit(0 - 1)),
                               Line("slti", <<2, 0>>, Lit(0 - 1)),
                               Line("slti", <<3, 1>>, Lit(4)),
                               Line("sltiu", <<4, 0>>, Lit(0 - 1)),
                               Line("sw", <<1, 29>>, Lit(0 - 4)),
                               Line("lw", <<5, 29>>, Lit(0 - 4)),
                               Line("sb", <<1, 29>>, Lit(0 - 7)),
                               Line("lbu", <<6, 29>>, Lit(0 - 7)),
                               Line("andi", <<7, 1>>, Lit(0 - 1)),
                               JrRa >>

Guest(k, a, b) == [k |-> k, a |-> a, b |-> b]

Guests ==
    {Guest(k, 0, 0) : k \in {"s1", "s1jr", "loop", "exit", "fall", "zero", "imm", "loadreg"}}
    \cup {Guest("alu", a, 0) : a \in 1..Len(AluTexts)}
    \cup {Guest(k, n, 0) : k \in {"chain", "chainjr"}, n \in 1..MaxChain}
    \cup {Guest(k, a, 0) : k \in {"store", "load"}, a \in 1..Len(Addrs)}
    \cup {Guest("mult", a, b) : a \in MulOperands, b \in MulOperands}
    \cup {Guest("cache", a, b) : a \in {1, 2}, b \in {1, 2}}
    \cup {Guest(k, t, 0) : k \in {"beq", "bne"}, t \in 1..Len(BranchTargets)}
    \cup {Guest("byte", lane, v) : lane \in 0..7, v \in ByteValues}
    \cup {Guest("bytelow", lane, 255) : lane \in 0..3}

ETols == {0, 1, 2, DefaultETol}

\* Assemble, for a guest with an empty data section: the system memory and
\* the number of errors the passes reported, [sysMem, numErrors, labels]
Assemble(text, settings) ==
    Local(assembleDataInit(settings), LAMBDA ds :
    Local(extractTextLabels(text, settings, ds), LAMBDA labelled :
    Local(assembleText(text, settings), LAMBDA t :
        [sysMem    |-> Compose(t.ret, ds.retMem),
         numErrors |-> labelled.numErrors + t.numErrors
                       + (IF Overlaps(ds.retMem, t.ret) THEN 1 ELSE 0),
         labels    |-> labelled.labels])))

\* ------------------------------------------------------------------------
\* The emulation as a state machine
\* ------------------------------------------------------------------------
\* ------------------------------------------------------------------------
\* Literals
\* ------------------------------------------------------------------------
\* the text of a decimal literal: its sign and its digits
RECURSIVE Digits(_)
Digits(n) == IF n < 10 THEN <<n>> ELSE Append(Digits(n \div 10), n % 10)

DecText(n) == [neg |-> n < 0, digits |-> Digits(IF n < 0 THEN 0 - n ELSE n)]

Mul10(a) == Add32(Shl32(a, 3), Shl32(a, 1))

\* the digit loops of getLiteralValueFull: ret = ret * 10 + c, refused once
\* ret is above the threshold
RECURSIVE parseDigits(_, _, _, _)
parseDigits(digits, k, ret, threshold) ==
    IF k > Len(digits) THEN [v |-> ret, ok |-> TRUE]
    ELSE IF LtU32(threshold, ret) THEN [v |-> Zero32, ok |-> FALSE]
    ELSE parseDigits(digits, k + 1, Add32(Mul10(ret), U32(digits[k])), threshold)

\* getLiteralValueFull on a base-10 number
getLiteralValueFull(s) ==
    IF s.neg
    THEN LET r == parseDigits(s.digits, 1, Zero32, <<3686, 26214>>)
         IN  IF r.ok THEN [v |-> Add32(Xor32(r.v, Ones32), One32), ok |-> TRUE] ELSE r
    ELSE parseDigits(s.digits, 1, Zero32, <<6553, 39321>>)

getLiteralValue(s) == getLiteralValueFull(s)

\* ------------------------------------------------------------------------
\* Data sections
\* ------------------------------------------------------------------------
MaxDataLines == 2     \* data sections of 1..MaxDataLines lines

\* DataStart values of the assembly runs besides the wizard's 0x8000, chosen
\* low so that the images of several-line sections stay small
DataStarts == {<<0, 16>>, <<0, 64>>}

DataShape(dir, vals) == [dir |-> dir, vals |-> vals]

DataShapes ==
    {DataShape(".word", v) : v \in {<<Lit(7)>>, <<<<4660, 22136>>, Lit(9)>>}}
    \cup {DataShape(".halfword", v) : v \in {<<Lit(5)>>, <<Lit(5), Lit(6)>>}}
    \cup {DataShape(".byte", v) : v \in {<<Lit(1)>>, <<Lit(255), Lit(0 - 1), Lit(3)>>,
                                         <<Lit(256)>>}}
    \cup {DataShape(".space", <<Lit(3)>>), DataShape(".alloc", <<Lit(2)>>),
          DataShape(".WORD", <<Lit(11)>>), DataShape(".quad", <<Lit(1)>>)}

\* one-line sections "L1: .byte n" around the limits of a byte
MaxByteLit == 260
ByteLits == (0 - MaxByteLit)..MaxByteLit

\* src is the text of the literals, vals what getLiteralValue returns for them
ByteProgram(n) ==
    <<[label |-> "L1", dir |-> ".byte", src |-> <<DecText(n)>>,
       vals |-> <<getLiteralValue(DecText(n)).v>>]>>

LabelNames == <<"L1", "L2", "L3", "L4">>

DataPrograms ==
    UNION {{[k \in 1..n |-> [label |-> LabelNames[k], dir |-> f[k].dir, vals |-> f[k].vals]]
              : f \in [1..n -> DataShapes]} : n \in 1..MaxDataLines}

\* ------------------------------------------------------------------------
\* The assembler and the emulator as state machines
\* ------------------------------------------------------------------------
VARIABLES
    asm,        \* the assembly run: settings, data lines, position, pass state, result
    guest,      \* the source program that was assembled for the emulation
    eTol,       \* Emulate's error tolerance
    inst,       \* the emulator instance
    status,     \* "running", "done" (Emulate returned) or "panic" (the process died);
                \* "unstarted" while the assembler runs
    batch       \* main's batch of emulations: loop counters, statistics, vet session

vars == <<asm, guest, eTol, inst, status, batch>>

\* no batch under way: a single call of Emulate is looked at
NoBatch == [phase |-> "none"]

\* the assembly run of a guest that has returned (no data lines)
Assembled(text, settings) ==
    Local(Assemble(text, settings), LAMBDA a :
        [settings |-> settings, lines |-> << >>, text |-> text, next |-> 1,
         ds |-> [assembleDataInit(settings) EXCEPT !.labels = a.labels,
                                                   !.numErrors = a.numErrors],
         phase |-> "composed", sysMem |-> a.sysMem])

\* main after Assemble has returned, before Emulate is called: inst holds
\* no emulation yet (it is given the reset state of an empty memory), limit
\* is the budget Emulate will get.
Init ==
    /\ guest \in Guests
    /\ asm = Assembled(GuestText(guest), Settings)
    /\ eTol \in ETols
    /\ \E limit \in 0..MaxLimit : inst = NewInstance(Settings.TextStart, << >>, limit)
    /\ status = "unstarted"
    /\ batch = NoBatch

\* main: with assembler errors the program is not emulated
MainRefuse ==
    /\ asm.phase = "composed"
    /\ status = "unstarted"
    /\ asm.ds.numErrors # 0
    /\ status' = "refused"
    /\ UNCHANGED <<asm, guest, eTol, inst, batch>>

\* main without assembler errors enters Emulate on the assembled memory: the
\* reset of the instance
EmulateStart ==
    /\ status = "unstarted"
    /\ asm.phase = "composed"
    /\ asm.ds.numErrors = 0
    /\ inst' = [NewInstance(Settings.TextStart, asm.sysMem,
                            inst.runtimeLimit) EXCEPT !.rand = inst.rand]
    /\ status' = "running"
    /\ UNCHANGED <<asm, guest, eTol, batch>>

\* the loop's exit branch: report and return the result
EmulateExit ==
    /\ status = "running"
    /\ Terminal(inst, eTol)
    /\ inst' = ExitReport(inst, eTol)
    /\ status' = "done"
    /\ UNCHANGED <<asm, guest, eTol, batch>>

\* one iteration of the loop: fetch, decode, execute, count
EmulateStep ==
    /\ status = "running"
    /\ ~Terminal(inst, eTol)
    /\ ~LoopBody(inst).fault
    /\ inst' = LoopBody(inst)
    /\ UNCHANGED <<asm, guest, eTol, status, batch>>

\* an iteration in which the Go run time panics
EmulatePanic ==
    /\ status = "running"
    /\ ~Terminal(inst, eTol)
    /\ LoopBody(inst).fault
    /\ status' = "panic"
    /\ UNCHANGED <<asm, guest, eTol, inst, batch>>

Next == MainRefuse \/ EmulateStart \/ EmulateExit \/ EmulateStep \/ EmulatePanic

Spec == Init /\ [][Next]_vars

\* ------------------------------------------------------------------------
\* Emulations of the scenario guests
\* ------------------------------------------------------------------------
\* tapes of rand.Intn(65536): a rejected sample, a reference, a rotation of
\* the reference (refused as a dummy) and seven dummies; the second tape
\* starts with a reference whose cells 7 and 0 are equal
SquareTapes ==
    {<<0, 40569, 39399, 37137, 61166, 30583, 56173, 58596, 39707, 25122>>,
     <<31129, 37137, 61166, 30583, 56173, 58596, 39707, 25122>>}

P1Samples ==
    {[squares |-> t, offset |-> o, flip |-> f, rot |-> r, color |-> 0, piles |-> << >>]
        : t \in SquareTapes, o \in {0, 3, 7}, f \in 0..1, r \in 0..3}

\* samples of one part of a pile: a 25 x 25 part at (1 + 5k, 1 + 5k) with
\* lines wanted at the offsets 0 and 22
PartSamples(k) == [w |-> 0, h |-> 0, x |-> 5 * k, y |-> 5 * k,
                   ys |-> <<0, 22>>, xs |-> <<0, 22>>]

\* a part whose second line cannot be placed in ten attempts
CrowdedPart == [w |-> 0, h |-> 0, x |-> 0, y |-> 0,
                ys |-> [k \in 1..20 |-> 0], xs |-> [k \in 1..20 |-> 0]]

PileSamples ==
    <<[colors |-> <<0, 1, 2, 3, 4, 5, 6>>, parts |-> [k \in 1..7 |-> CrowdedPart]],
      [colors |-> <<0, 0, 1, 2, 3, 4, 5, 6>>, parts |-> [k \in 1..7 |-> PartSamples(k - 1)]]>>

Fa21Samples ==
    {[squares |-> << >>, offset |-> 0, flip |-> 0, rot |-> 0, color |-> c, piles |-> ps]
        : c \in {0, 6}, ps \in {PileSamples}}

ScenarioGuests ==
    {Guest("p1", a, 0) : a \in {0, 4, 8, 12, 16, 20, 24, 28, 5, 32}}
    \cup {Guest("p1", K16, 0)}       \* addi $3, $0, 65536: refused by the assembler
    \cup {Guest(k, 0, 0) : k \in {"p1none", "p1magic"}}
    \cup {Guest(k, a, 0) : k \in {"p1wrong", "nocontext", "p1uninit"}, a \in {0, 4}}
    \cup {Guest("fa21", 0, 0), Guest("fa21", 2015, 3575)}

SamplesOf(g) == IF g.k = "fa21" THEN Fa21Samples
                ELSE IF g.k = "nocontext" THEN {NoSamples} ELSE P1Samples

ScenarioInit ==
    /\ guest \in ScenarioGuests
    /\ asm = Assembled(GuestText(guest), Settings)
    /\ eTol = DefaultETol
    /\ \E d \in SamplesOf(guest) :
           inst = [NewInstance(Settings.TextStart, << >>, MaxLimit) EXCEPT !.rand = d]
    /\ status = "unstarted"
    /\ batch = NoBatch

ScenarioSpec == ScenarioInit /\ [][Next]_vars

\* the assembly runs: every data section under the low DataStart values, the
\* one-line sections under the wizard's settings
AsmRuns ==
    {<<start, prog>> : start \in DataStarts, prog \in DataPrograms}
    \cup {<<Settings.DataStart, prog>> : prog \in {q \in DataPrograms : Len(q) = 1}}
    \cup {<<start, ByteProgram(n)>> : start \in DataStarts, n \in ByteLits}

\* sources that declare labels in both sections: the second data line and
\* the text lines take their label from LabelNames[1..2]
LabelledLine(name, op, r, v) == [label |-> name, op |-> op, r |-> r, v |-> v]

LabelRuns ==
    {<<start,
       <<[label |-> "L1", dir |-> d, vals |-> <<Lit(1)>>],
         [label |-> a, dir |-> d, vals |-> <<Lit(2)>>]>>,
       <<LabelledLine(b, "addi", <<1, 0>>, Lit(5)), LabelledLine(c, "jr", <<31>>, Zero32)>>>>
        : start \in DataStarts, d \in {".word", ".byte"},
          a \in {"L1", "L2"}, b \in {"", "L1", "L3"}, c \in {"", "L2", "L3"}}

\* sources assembled under settings that put the text near the data: a
\* one-line data section and a text of 1..MaxChain + 1 instructions
TextStarts == {<<0, 16 + 4 * k>> : k \in 0..13}

LayoutRuns ==
    {<<dstart, prog, ChainText(n) \o <<JrRa>>, tstart>>
        : dstart \in DataStarts, tstart \in TextStarts, n \in 0..MaxChain,
          prog \in {q \in DataPrograms : Len(q) = 1}}

\* one-line data sections that start on the last word of page 0
PageEdgeRuns ==
    {<<<<0, 4092>>, prog>> : prog \in {q \in DataPrograms : Len(q) = 1}}

\* texts of three labelled lines, the first two an addi or a jal in one of
\* its spellings, with no data section
JalSpellings == {"jal", "JAL", "Jal", "jAL"}

JalLine(name, op, k) ==
    IF op = "addi" THEN LabelledLine(name, op, <<k, 0>>, Lit(k))
    ELSE LabelledLine(name, op, << >>, Add32(Settings.TextStart, U32(4 * k)))

JalRuns ==
    {<<Settings.DataStart, << >>,
       <<JalLine("L1", a, 1), JalLine("L2", b, 2), LabelledLine("L3", "jr", <<31>>, Zero32)>>>>
        : a \in JalSpellings \cup {"addi"}, b \in JalSpellings \cup {"addi"}}

\* texts of one line and a jr, with no data section: lines the text pass
\* reports (an immediate, a shift amount, a register or an operand count out
\* of range, an unknown mnemonic) and lines it accepts
ReportedLines ==
    {Line("beq", <<0, 0>>, <<4, 0>>), Line("addi", <<3, 0>>, <<1, 0>>),
     Line("lui", <<1>>, <<1, 0>>), Line("sll", <<1, 2>>, Lit(33)),
     Line("add", <<1, 2>>, Zero32), Line("add", <<1, 2, 32>>, Zero32),
     Line("lw", <<1, 32>>, Lit(4)), Line("lw", <<1>>, Lit(4)),
     Line("sw", <<32>>, Lit(4)), Line("mfhi", <<1, 2>>, Zero32),
     Line("bogus", <<1>>, Zero32)}

AcceptedLines ==
    {Line("ADDI", <<1, 0>>, Lit(5)), Line("Beq", <<0, 0>>, <<3, K16 - 4>>),
     Line("sll", <<1, 2>>, Lit(31)), Line("lui", <<1>>, Lit(0 - 1)),
     Line("nop", << >>, Zero32)}

LineRuns ==
    {<<Settings.DataStart, << >>, <<l, JrRa>>>> : l \in ReportedLines \cup AcceptedLines}

\* Assemble on a source of data lines and labelled text lines
AsmInit ==
    /\ \E run \in AsmRuns \cup LabelRuns \cup LayoutRuns \cup PageEdgeRuns \cup JalRuns
                   \cup LineRuns :
           LET settings == [TextStart |-> IF Len(run) = 4 THEN run[4] ELSE Settings.TextStart,
                            DataStart |-> run[1]]
           IN  asm = [settings |-> settings, lines |-> run[2],
                      text |-> IF Len(run) >= 3 THEN run[3] ELSE << >>, next |-> 1,
                      ds |-> assembleDataInit(settings), phase |-> "data",
                      sysMem |-> << >>]
    /\ guest = Guest("exit", 0, 0)
    /\ eTol = DefaultETol
    /\ inst = NewInstance(Settings.TextStart, << >>, 0)
    /\ status = "unstarted"
    /\ batch = NoBatch

\* one iteration of assembleData's loop
AssembleDataLine ==
    /\ asm.phase = "data"
    /\ asm.next <= Len(asm.lines)
    /\ asm' = [asm EXCEPT !.ds = assembleDataLine(@, asm.lines[asm.next]),
                          !.next = @ + 1]
    /\ UNCHANGED <<guest, eTol, inst, status, batch>>

\* the rest of Assemble: the labels of the text lines, the text pass, the
\* overlap test and the composition of the system memory
AssembleFinish ==
    /\ asm.phase = "data"
    /\ asm.next > Len(asm.lines)
    /\ LET t        == assembleText(asm.text, asm.settings)
           labelled == extractTextLabels(asm.text, asm.settings, asm.ds)
       IN  asm' = [asm EXCEPT
                      !.phase = "composed",
                      !.ds.labels = labelled.labels,
                      !.ds.numErrors = labelled.numErrors + t.numErrors
                                       + (IF Overlaps(asm.ds.retMem, t.ret) THEN 1 ELSE 0),
                      !.sysMem = Compose(t.ret, asm.ds.retMem)]
    /\ UNCHANGED <<guest, eTol, inst, status, batch>>

\* main: without assembler errors Emulate is entered on the composed memory
MainEmulate ==
    /\ asm.phase = "composed"
    /\ status = "unstarted"
    /\ asm.ds.numErrors = 0
    /\ inst' = NewInstance(asm.settings.TextStart, asm.sysMem, inst.runtimeLimit)
    /\ status' = "running"
    /\ UNCHANGED <<asm, guest, eTol, batch>>

AsmNext == AssembleDataLine \/ AssembleFinish \/ MainRefuse \/ MainEmulate

AsmSpec == AsmInit /\ [][AsmNext]_vars

\* ------------------------------------------------------------------------
\* main's batch of emulations and the vet session
\* ------------------------------------------------------------------------
MaxSamples == 12          \* numSamples of a vetted batch (100000 in main)
BatchLimit == 10          \* limit (100000 in main)
MaxInfiniteLoops == 10    \* numInf > 10 halts the batch

\* Emulate's loop from instance i on: the result, or the instance at the
\* iteration in which the Go run time panics (fault = TRUE)
RECURSIVE EmulateLoop(_, _)
EmulateLoop(i, tol) ==
    IF Terminal(i, tol) THEN ExitReport(i, tol)
    ELSE Local(LoopBody(i), LAMBDA next :
             IF next.fault THEN next ELSE EmulateLoop(next, tol))

\* Emulate, with d the samples math/rand is going to give
Emulate(startAddr, mem, limit, tol, d) ==
    EmulateLoop([NewInstance(startAddr, mem, limit) EXCEPT !.rand = d], tol)

\* the answers to "Type the assignment to vet the assembly for"
VetRequests == {"", "p1", "P1", "p2"}

NoVet == [kind |-> "nil"]

newVet(aName) ==
    [kind |-> "VetSession", Assignment |-> aName, CorrectCount |-> 0, TotalCount |-> 0,
     TestCases |-> << >>, FailedSnapshots |-> << >>]

\* for _, e := range errors { vErrors[e.EType]++ }
RECURSIVE addVetErrors(_, _, _)
addVetErrors(errors, vErrors, k) ==
    IF k > Len(errors) THEN vErrors
    ELSE Local((errors[k] :> (IF errors[k] \in DOMAIN vErrors
                              THEN vErrors[errors[k]] + 1 ELSE 1)) @@ vErrors,
               LAMBDA next : addVetErrors(errors, next, k + 1))

\* samples of rand.Float64(), in hundredths
FloatSamples == {0, 99}

\* a test against 0.75^(num + 1): the first failure of a key may be dropped
\* (the variant C30 is tried against)
NotCapturingFromFirst(u, num) == u * (4 ^ (num + 1)) > 100 * (3 ^ (num + 1))

\* rand.Float64() > math.Pow(0.75, num) for the sample u / 100
NotCapturing(u, num) == u * (4 ^ num) > 100 * (3 ^ num)

addVetFailedSnap(v, result, tc, u) ==
    LET num == Cardinality({k \in 1..Len(v.FailedSnapshots) :
                               v.FailedSnapshots[k].TestCase = tc})
    IN  IF NotCapturing(u, num) THEN v
        ELSE [v EXCEPT !.FailedSnapshots =
                           Append(@, [TestCase |-> tc, Snapshot |-> result])]

RotStr(rot) == CASE rot = 0 -> "0Rot" [] rot = 1 -> "90Rot"
                 [] rot = 2 -> "180Rot" [] rot = 3 -> "270Rot"

\* "P1-" + rotStr + "CW-" + flipStr + "-" + strconv.Itoa(offset) + "offset"
TestCaseOf(p) ==
    <<"P1-", RotStr(p.SolutionRotation), "CW-",
      IF p.SolutionFlipped THEN "flipped" ELSE "notFlipped", "-",
      ToNat(p.SolutionOffset), "offset">>

\* the update of the test case tc, for the errors of the vetted result
VetTestCase(v, p, result, tc, u) ==
    LET correct == p.ReportedOffset = p.SolutionOffset
    IN  IF tc \in DOMAIN v.TestCases
        THEN LET tcs     == v.TestCases[tc]
                 counted == [tcs EXCEPT
                               !.ErrorsFrequency = addVetErrors(result.errors, @, 1),
                               !.TotalErrors = @ + Len(result.errors),
                               !.Successes = IF correct THEN @ + 1 ELSE @,
                               !.Fails = IF correct THEN @ ELSE @ + 1]
                 v1      == [v EXCEPT !.TestCases[tc] = counted]
             IN  IF correct THEN v1 ELSE addVetFailedSnap(v1, result, tc, u)
        ELSE LET fresh == [ErrorsFrequency |-> addVetErrors(result.errors, << >>, 1),
                           TotalErrors |-> Len(result.errors),
                           Successes |-> IF correct THEN 1 ELSE 0,
                           Fails |-> IF correct THEN 0 ELSE 1]
                 v1    == [v EXCEPT !.TestCases = (tc :> fresh) @@ @]
             IN  IF correct THEN v1 ELSE addVetFailedSnap(v1, result, tc, u)

\* a vet that counts every reported answer as correct (the variant C18 is
\* tried against)
vetCountingAnswers(v, result, u) ==
    IF result.swiContext.kind # "Project1"
    THEN [exit |-> TRUE, v |-> [v EXCEPT !.TotalCount = @ + 1], errors |-> result.errors]
    ELSE Local([v EXCEPT !.TotalCount = @ + 1,
                         !.CorrectCount = IF result.swiContext.ReportedOffset # NoAnswer
                                          THEN @ + 1 ELSE @], LAMBDA v1 :
             [exit |-> FALSE, errors |-> result.errors,
              v |-> VetTestCase(v1, result.swiContext, result,
                                TestCaseOf(result.swiContext), u)])

\* vetP1Interop: [exit, v, errors]; exit = TRUE is os.Exit(1), errors is the
\* function's result.Errors when it returns
vetP1Interop(v, result, u) ==
    IF result.swiContext.kind # "Project1"
    THEN [exit |-> TRUE, v |-> [v EXCEPT !.TotalCount = @ + 1], errors |-> result.errors]
    ELSE Local(IF result.swiContext.ReportedOffset = NoAnswer
               THEN [result EXCEPT !.errors = Append(@, eNoAnswerReported)]
               ELSE result, LAMBDA res :
         Local([v EXCEPT !.TotalCount = @ + 1,
                         !.CorrectCount = IF res.swiContext.ReportedOffset
                                               = res.swiContext.SolutionOffset
                                          THEN @ + 1 ELSE @], LAMBDA v1 :
             [exit |-> FALSE, errors |-> res.errors,
              v |-> VetTestCase(v1, res.swiContext, res, TestCaseOf(res.swiContext), u)]))

\* a copy that shares the init bits: sysMemCopy[k] gets a new memory slice
\* and the initialized slice of sysMem[k] (the variant C21 is tried against)
ShareMemory(sysMem) ==
    LET base == IF DOMAIN sysMem = {} THEN 0
                ELSE CHOOSE m \in ArraysOf(sysMem) : \A o \in ArraysOf(sysMem) : o <= m
    IN  [k \in DOMAIN sysMem |->
            [startAddr   |-> sysMem[k].startAddr,
             memory      |-> sysMem[k].memory,
             initialized |-> sysMem[k].initialized,
             memArr      |-> base + 2 * Cardinality({j \in DOMAIN sysMem : j < k}) + 1,
             initArr     |-> sysMem[k].initArr]]

\* sysMemCopy: a new map that holds, for every page of sysMem, a MemoryPage
\* with the same startAddr and two slices made for it (arrays that sysMem does
\* not refer to), into which copy() has put the words and the init bits of
\* the page
CopyMemory(sysMem) ==
    LET base == IF DOMAIN sysMem = {} THEN 0
                ELSE CHOOSE m \in ArraysOf(sysMem) : \A o \in ArraysOf(sysMem) : o <= m
    IN  [k \in DOMAIN sysMem |->
            [startAddr   |-> sysMem[k].startAddr,
             memory      |-> sysMem[k].memory,
             initialized |-> sysMem[k].initialized,
             memArr      |-> base + 2 * Cardinality({j \in DOMAIN sysMem : j < k}) + 1,
             initArr     |-> base + 2 * Cardinality({j \in DOMAIN sysMem : j < k}) + 2]]

\* main's sysMem when Emulate has returned: sysMem is another map than the
\* one handed to Emulate, so it has the pages it had; a slice of these pages
\* holds what the run left in its array, when a page of the run refers to the
\* same array
MemoryAfterRun(sysMem, result) ==
    [k \in DOMAIN sysMem |->
        [sysMem[k] EXCEPT
           !.memory = IF \E j \in DOMAIN result.memory :
                            result.memory[j].memArr = sysMem[k].memArr
                      THEN result.memory[CHOOSE j \in DOMAIN result.memory :
                               result.memory[j].memArr = sysMem[k].memArr].memory
                      ELSE @,
           !.initialized = IF \E j \in DOMAIN result.memory :
                                 result.memory[j].initArr = sysMem[k].initArr
                           THEN result.memory[CHOOSE j \in DOMAIN result.memory :
                                    result.memory[j].initArr = sysMem[k].initArr].initialized
                           ELSE @]]

\* the guests of the vetted batches and the samples of their runs
VetGuests ==
    {Guest(k, 0, 0) : k \in {"p1", "p1spin", "p1none", "p1magic", "nocontext", "p1uninit",
                             "p1store"}}
    \cup {Guest("p1", K16, 0)}       \* addi $3, $0, 65536: refused by the assembler

VetSamplesOf(g) ==
    IF g.k = "nocontext" THEN {NoSamples}
    ELSE {[squares |-> <<0, 40569, 39399, 37137, 61166, 30583, 56173, 58596, 39707, 25122>>,
           offset |-> o, flip |-> 1, rot |-> 0, color |-> 0, piles |-> << >>]
            : o \in IF g.k \in {"p1", "p1spin"} THEN {0, 1} ELSE {0}}

\* main up to the test of Assemble's error count: the wizard's answers and
\* the assembly of the guest
VetInit ==
    /\ guest \in VetGuests
    /\ asm = Assembled(GuestText(guest), Settings)
    /\ eTol = DefaultETol
    /\ inst = NewInstance(Settings.TextStart, << >>, BatchLimit)
    /\ status = "unstarted"
    /\ \E req \in VetRequests :
           batch = [phase |-> "loop", i |-> 0, numInf |-> 0,
                    numSamples |-> IF ToLower(req) = "p1" THEN MaxSamples ELSE 1,
                    vetSession |-> IF ToLower(req) = "p1" THEN newVet("Project 1")
                                   ELSE NoVet,
                    dimin |-> BatchLimit, dimax |-> 0, sumDI |-> 0,
                    vetted |-> << >>, tests |-> 0 - 1,
                    sysMem |-> asm.sysMem]

\* the last error of the result is RuntimeLimitExceeded
EndedByLimit(result) ==
    Len(result.errors) > 0 /\ result.errors[Len(result.errors)] = eRuntimeLimitExceeded

\* the loop's body after Emulate has returned result
AfterEmulation(b, result, u) ==
    LET b1 == [b EXCEPT !.sumDI = @ + result.di,
                        !.dimin = IF result.di < @ THEN result.di ELSE @,
                        !.dimax = IF result.di > @ THEN result.di ELSE @,
                        !.numInf = IF EndedByLimit(result) THEN @ + 1 ELSE @]
    IN  IF EndedByLimit(result) /\ b1.numInf > MaxInfiniteLoops
        THEN [b1 EXCEPT !.numSamples = b.i + 1, !.phase = "halted"]
        ELSE IF b.vetSession = NoVet THEN [b1 EXCEPT !.i = @ + 1]
        ELSE Local(vetP1Interop(b.vetSession, result, u), LAMBDA r :
                 [b1 EXCEPT !.vetSession = r.v, !.vetted = r.errors,
                            !.phase = IF r.exit THEN "exited" ELSE @,
                            !.i = IF r.exit THEN @ ELSE @ + 1])

\* the samples rand.Float64() can give in the iteration: addVetFailedSnap, the
\* only caller, is reached by the vet of a run whose answer is not the solution
FloatDraws(b, result) ==
    IF /\ ~(EndedByLimit(result) /\ b.numInf + 1 > MaxInfiniteLoops)
       /\ b.vetSession # NoVet
       /\ result.swiContext.kind = "Project1"
       /\ result.swiContext.ReportedOffset # result.swiContext.SolutionOffset
    THEN FloatSamples ELSE {0}

\* one iteration of main's loop: Emulate on a copy of the memory, the
\* statistics, the test for too many infinite loops, the vet
BatchIterate ==
    /\ asm.ds.numErrors = 0
    /\ batch.phase = "loop"
    /\ batch.i < batch.numSamples
    /\ \E d \in VetSamplesOf(guest), sysMemCopy \in {CopyMemory(batch.sysMem)} :
         \E result \in {Emulate(Settings.TextStart, sysMemCopy, BatchLimit, eTol, d)} :
           \E b \in {[batch EXCEPT !.sysMem = MemoryAfterRun(@, result)]} :
             IF result.fault
             THEN /\ status' = "panic"
                  /\ batch' = [b EXCEPT !.phase = "panic"]
                  /\ inst' = result
             ELSE /\ status' = "done"
                  /\ inst' = result
                  /\ \E u \in FloatDraws(b, result) : batch' = AfterEmulation(b, result, u)
    /\ UNCHANGED <<asm, guest, eTol>>

\* after the loop: displayGeneralResults(numSamples, ...), displayResults
BatchSummary ==
    /\ asm.ds.numErrors = 0
    /\ \/ batch.phase = "loop" /\ batch.i >= batch.numSamples
       \/ batch.phase = "halted"
    /\ batch' = [batch EXCEPT !.phase = "summary", !.tests = batch.numSamples]
    /\ UNCHANGED <<asm, guest, eTol, inst, status>>

VetNext == MainRefuse \/ BatchIterate \/ BatchSummary

VetSpec == VetInit /\ [][VetNext]_vars

\* ------------------------------------------------------------------------
\* Vocabulary of the properties
\* ------------------------------------------------------------------------
Has(errs, e) == \E k \in 1..Len(errs) : errs[k] = e

Count(errs, e) == Cardinality({k \in 1..Len(errs) : errs[k] = e})

\* the loop is about to run one more iteration
Running == status = "running" /\ ~Terminal(inst, eTol)

\* the word at pc, read without touching the caches: <<word, initialized>>
Fetched(i) == memRead(i.memory, i.pc)

\* the loop is about to execute an instruction (not a failed fetch, not a no-op)
Executing == Running /\ Fetched(inst)[2] /\ Fetched(inst)[1] # Zero32

CurOp(i) == decodeInstruction(Fetched(i)[1])

SampleValues == {Zero32, One32, <<K15, 1>>, <<4660, 22136>>, Ones32}

SampleAddrs == {Addrs[k] : k \in 1..Len(Addrs)} \cup {<<0, 4096 + 66>>, <<16, 1>>}

ProgramLen == Len(GuestText(guest))

\* ------------------------------------------------------------------------
\* C1  Straight-line programs
\* ------------------------------------------------------------------------
\* C1 as the specification states it: a program of n valid instructions and
\* no jump, emulated with room for n instructions and at least one tolerated
\* error, finishes with DI = n, no errors, and (for S1) $3 = 12.
C1_EndsCleanlyWithoutJump ==
    (/\ status = "done"
     /\ guest.k \in {"s1", "chain"}
     /\ eTol >= 1
     /\ inst.runtimeLimit >= ProgramLen)
    => /\ inst.di = ProgramLen
       /\ inst.errors = << >>
       /\ guest.k = "s1" => inst.regs[3] = U32(12)

\* the mnemonics that compute a register from registers and a literal and
\* report no error of their own
ArithmeticOps ==
    {"add", "addu", "sub", "subu", "and", "or", "xor", "slt", "sltu", "sll", "srl", "sra",
     "addi", "addiu", "andi", "ori", "slti", "sltiu", "lui"}

\* the registers that hold a value after the first k lines of a text whose
\* lines write their first operand
RECURSIVE Holding(_, _)
Holding(text, k) ==
    IF k = 0 THEN {0, 29, 31} ELSE Holding(text, k - 1) \cup {text[k].r[1]}

\* a text of arithmetic instructions that the assembler accepts, each reading
\* registers that hold a value and writing a register other than $0 and
\* $31, closed by jr $31
StraightLine(text) ==
    /\ Len(text) >= 1
    /\ text[Len(text)] = JrRa
    /\ \A k \in 1..(Len(text) - 1) :
          /\ ToLower(text[k].op) \in ArithmeticOps
          /\ assembleInstruction(text[k]).errs = 0
          /\ text[k].r[1] \notin {0, 31}
          /\ \A j \in 2..Len(text[k].r) : text[k].r[j] \in Holding(text, k - 1)

\* C1, amended: a program of n arithmetic instructions (no load, store,
\* multiply, divide, interrupt, jump or branch) that read registers holding
\* a value and write registers other than $0 and $31, closed by `jr $31`, is
\* assembled without errors and emulated without a panic; with eTol >= 1 and
\* runtimeLimit >= n + 1 it reports no error at any step and finishes at the
\* sentinel with DI = n + 1, an empty error list, the written registers
\* initialized and (S1) $3 = 12.  Without the jump the n instructions still
\* leave $3 = 12, but the emulator runs on past the text: every further
\* fetch reports UninitializedMemoryAccess, and with runtimeLimit >= n + eTol
\* it finishes with DI = n + eTol and eTol such errors followed by
\* ErrorLimitReached.
C1_StraightLine ==
    /\ StraightLine(GuestText(guest))
          => /\ status \notin {"panic", "refused"}
             /\ (eTol >= 1 /\ inst.runtimeLimit >= ProgramLen /\ status \in {"running", "done"})
                  => /\ inst.errors = << >>
                     /\ inst.di <= ProgramLen
                     /\ inst.pc = SentinelPC <=> inst.di = ProgramLen
                     /\ status = "done"
                           => /\ inst.pc = SentinelPC
                              /\ inst.regInit = Holding(GuestText(guest), ProgramLen - 1)
                              /\ guest.k = "s1jr" => inst.regs[3] = U32(12)
                              /\ guest.k = "chainjr" => inst.regs[1] = U32(guest.a)
    /\ (status = "done" /\ eTol >= 1) =>
        /\ (guest.k = "s1" /\ inst.runtimeLimit >= ProgramLen)
           => inst.regs[3] = U32(12)
        /\ (guest.k \in {"s1", "chain"} /\ inst.runtimeLimit >= ProgramLen + eTol)
           => /\ inst.di = ProgramLen + eTol
              /\ inst.errors = [k \in 1..(eTol + 1) |->
                                   IF k <= eTol THEN eUninitializedMemoryAccess
                                   ELSE eErrorLimitReached]

\* the guests the amended statement is about
StraightLineGuests == {g \in Guests : StraightLine(GuestText(g))}

\* S1 closed by jr $31 has finished at the sentinel; the class of the
\* amended statement holds S1, the chains, the three arithmetic guests and
\* the empty program, each closed by the jump
C1_Witness ==
    /\ status = "done"
    /\ guest.k = "s1jr"
    /\ StraightLineGuests = {Guest("s1jr", 0, 0), Guest("exit", 0, 0)}
                               \cup {Guest("chainjr", n, 0) : n \in 1..MaxChain}
                               \cup {Guest("alu", a, 0) : a \in 1..Len(AluTexts)}
    /\ inst.pc = SentinelPC
    /\ inst.di = 4
    /\ inst.errors = << >>
    /\ inst.regs[3] = U32(12)

\* ------------------------------------------------------------------------
\* C2  Read after write
\* ------------------------------------------------------------------------
\* C2: in every state of a running emulation, for every address A and value
\* V, memWrite(A, V, 0xFFFFFFFF) followed by memAccess(A) returns (V, true).
C2_ReadAfterWrite ==
    status = "running" =>
        \A A \in SampleAddrs, V \in SampleValues :
            LET w == memWrite(inst, A, V, Ones32)
                r == memAccess(w, A, FALSE)
            IN  ~r.inst.fault /\ r.ok /\ r.v = V

\* ------------------------------------------------------------------------
\* C3  Reads of unwritten memory
\* ------------------------------------------------------------------------
\* C3: in every state of a running emulation, memAccess of an address A that
\* nothing has written returns (0, false) and appends exactly one
\* UninitializedMemoryAccess; a load from such an address lets the emulation
\* go on to the next instruction.
C3_UnwrittenReadReports ==
    /\ status = "running" =>
           \A A \in SampleAddrs :
               ~memRead(inst.memory, A)[2] =>
                   LET r == memAccess(inst, A, FALSE)
                   IN  /\ ~r.inst.fault
                       /\ ~r.ok
                       /\ r.v = Zero32
                       /\ r.inst.errors = Append(inst.errors, eUninitializedMemoryAccess)
    /\ (/\ Executing
        /\ CurOp(inst).op = opLW
        /\ CurOp(inst).x \in inst.regInit
        /\ ~memRead(inst.memory, Add32(inst.regs[CurOp(inst).x], CurOp(inst).imm))[2])
       => /\ ~LoopBody(inst).fault
          /\ LoopBody(inst).pc = Add32(inst.pc, Four32)
          /\ Count(LoopBody(inst).errors, eUninitializedMemoryAccess)
                 = Count(inst.errors, eUninitializedMemoryAccess) + 1

\* ------------------------------------------------------------------------
\* C4  Register 0
\* ------------------------------------------------------------------------
\* the instruction at pc ends in regWrite(0, ...)
WritesZero(i) ==
    LET d == CurOp(i)
    IN  IF d.op = opRTYPE
        THEN d.z = 0 /\ d.fn \notin {fnDIV, fnDIVU, fnJR, fnMULT, fnMULTU}
                     /\ d.fn \in {fnADD, fnADDU, fnAND, fnMFHI, fnMFLO, fnXOR, fnOR,
                                  fnSLT, fnSLTU, fnSLL, fnSRL, fnSRA, fnSLLV, fnSRLV,
                                  fnSRAV, fnSUB, fnSUBU}
        ELSE d.z = 0 /\ d.op \in {opADDI, opADDIU, opANDI, opLB, opLBU, opLUI, opLW,
                                  opORI, opSLTI, opSLTIU}

\* C4: regs[0] = 0 in every reachable state; regWrite(0, V) appends
\* IllegalRegisterWrite and changes no register, and so does every instruction
\* whose destination is $0; for N in 1..31, regWrite(N, V) followed by
\* regAccess(N) returns V and reports nothing.
C4_RegisterZero ==
    /\ inst.regs[0] = Zero32
    /\ \A V \in SampleValues :
           /\ regWrite(inst, 0, V).regs = inst.regs
           /\ regWrite(inst, 0, V).regInit = inst.regInit
           /\ regWrite(inst, 0, V).errors = Append(inst.errors, eIllegalRegisterWrite)
           /\ \A N \in 1..31 :
                  LET r == regAccess(regWrite(inst, N, V), N)
                  IN  r.v = V /\ r.inst.errors = inst.errors
    /\ (Executing /\ WritesZero(inst) /\ ~LoopBody(inst).fault)
       => /\ LoopBody(inst).regs = inst.regs
          /\ Count(LoopBody(inst).errors, eIllegalRegisterWrite)
                 = Count(inst.errors, eIllegalRegisterWrite) + 1

\* four instructions with destination $0 have run beside one that wrote $4
C4_Witness ==
    /\ guest.k = "zero"
    /\ Count(inst.errors, eIllegalRegisterWrite) = 4
    /\ inst.regs[4] = U32(9)
    /\ inst.regs[0] = Zero32

\* ------------------------------------------------------------------------
\* C5  The sentinel exit
\* ------------------------------------------------------------------------
\* C5: an emulation that returns with pc = 0xFFFFFFFF has appended neither
\* ErrorLimitReached nor RuntimeLimitExceeded, whatever its error count and DI.
C5_SentinelExitIsSilent ==
    (status = "done" /\ inst.pc = SentinelPC)
    => /\ ~Has(inst.errors, eErrorLimitReached)
       /\ ~Has(inst.errors, eRuntimeLimitExceeded)

\* ------------------------------------------------------------------------
\* C6  Halting by the runtime limit
\* ------------------------------------------------------------------------
\* C6: an emulation that has stopped without reaching the sentinel pc and
\* without reaching eTol errors has returned, with DI > runtimeLimit and
\* RuntimeLimitExceeded as the last entry of its error list.
C6_HaltsByRuntimeLimit ==
    (\/ status = "panic"
     \/ (/\ status = "done"
         /\ inst.pc # SentinelPC
         /\ ~Has(inst.errors, eErrorLimitReached)))
    => /\ status = "done"
       /\ inst.di > inst.runtimeLimit
       /\ inst.errors # << >>
       /\ inst.errors[Len(inst.errors)] = eRuntimeLimitExceeded

\* ------------------------------------------------------------------------
\* C7  The bound on DI
\* ------------------------------------------------------------------------
\* C7: DI <= runtimeLimit + 1 in every state of every emulation, the returned
\* one included, and every iteration of the loop (a failed fetch included)
\* increases DI by exactly 1.
C7_DIBound ==
    /\ inst.di <= inst.runtimeLimit + 1
    /\ Running => LoopBody(inst).di = inst.di + 1

C7_Witness ==
    /\ status = "done"
    /\ guest.k = "loop"
    /\ inst.di = inst.runtimeLimit + 1
    /\ inst.errors = <<eRuntimeLimitExceeded>>

\* ------------------------------------------------------------------------
\* C8  MULT and MULTU
\* ------------------------------------------------------------------------
\* C8: after MULT, HI:LO is the 64-bit two's-complement product of the two
\* registers read as signed 32-bit integers; after MULTU it is their unsigned
\* 64-bit product.
C8_MultIsSigned ==
    (/\ Executing
     /\ CurOp(inst).op = opRTYPE
     /\ CurOp(inst).fn \in {fnMULT, fnMULTU}
     /\ CurOp(inst).x \in inst.regInit
     /\ CurOp(inst).y \in inst.regInit)
    => LET a == inst.regs[CurOp(inst).x]
           b == inst.regs[CurOp(inst).y]
           p == IF CurOp(inst).fn = fnMULT
                THEN Mul64(SignExt64(a), SignExt64(b))
                ELSE Mul64(ZeroExt64(a), ZeroExt64(b))
       IN  /\ LoopBody(inst).hi = Hi32Of64(p)
           /\ LoopBody(inst).lo = Lo32Of64(p)

\* ------------------------------------------------------------------------
\* C9  Immediates
\* ------------------------------------------------------------------------
\* C9: ADDI, ADDIU and SLTI operate on the immediate sign-extended to 32
\* bits, LW and SW address base + the sign-extended offset, and ANDI, ORI and
\* SLTIU operate on the zero-extended immediate.
C9_ImmediateExtension ==
    (/\ Executing
     /\ ~LoopBody(inst).fault
     /\ CurOp(inst).x \in inst.regInit)
    => LET d  == CurOp(inst)
           n  == LoopBody(inst)
           a  == inst.regs[d.x]
           se == SExt16(d.imm[2])
           ze == ZExt16(d.imm[2])
       IN  /\ (d.op \in {opADDI, opADDIU} /\ d.z # 0) => n.regs[d.z] = Add32(a, se)
           /\ (d.op = opSLTI /\ d.z # 0) => n.regs[d.z] = SetLess(LtS32(a, se))
           /\ (d.op = opSW /\ d.z \in inst.regInit)
              => memRead(n.memory, Add32(a, se)) = <<inst.regs[d.z], TRUE>>
           /\ (d.op = opLW /\ d.z # 0)
              => n.regs[d.z] = memRead(inst.memory, Add32(a, se))[1]
           /\ (d.op = opANDI /\ d.z # 0) => n.regs[d.z] = And32(a, ze)
           /\ (d.op = opORI /\ d.z # 0) => n.regs[d.z] = Or32(a, ze)
           /\ (d.op = opSLTIU /\ d.z # 0) => n.regs[d.z] = SetLess(LtU32(a, ze))

\* ------------------------------------------------------------------------
\* C10  Data labels
\* ------------------------------------------------------------------------
\* the halfword at byte address a of a word read at a
HalfAt(w, a) == Shr32(w, (a[2] % 4) * 8)[2]

\* C10: after Assemble, the label of every .word line is the 4-aligned address
\* at which the composed memory holds the line's values, value k at label +
\* 4(k - 1); likewise for .halfword with 2-aligned addresses and label + 2(k - 1).
C10_LabelsBindData ==
    asm.phase = "composed" =>
        \A n \in 1..Len(asm.lines) :
            LET l == asm.lines[n]
                L == asm.ds.labels[l.label]
            IN  /\ ToLower(l.dir) = ".word" =>
                       /\ L[2] % 4 = 0
                       /\ \A k \in 1..Len(l.vals) :
                              memRead(asm.sysMem, Add32(L, U32(4 * (k - 1))))
                                  = <<l.vals[k], TRUE>>
                /\ ToLower(l.dir) = ".halfword" =>
                       /\ L[2] % 2 = 0
                       /\ \A k \in 1..Len(l.vals) :
                              LET a == Add32(L, U32(2 * (k - 1)))
                                  r == memRead(asm.sysMem, a)
                              IN  r[2] /\ HalfAt(r[1], a) = l.vals[k][2]

\* C11: a .byte literal is accepted without error iff its value is in
\* [-128, 255]: in every finished assembly of the one-line section
\* "L1: .byte n", the error count is zero exactly when -128 <= n <= 255.
RECURSIVE DigitsValue(_)
DigitsValue(d) ==
    IF d = << >> THEN 0 ELSE 10 * DigitsValue(SubSeq(d, 1, Len(d) - 1)) + d[Len(d)]

DecValue(t) == IF t.neg THEN 0 - DigitsValue(t.digits) ELSE DigitsValue(t.digits)

C11_ByteRange ==
    (asm.phase = "composed" /\ Len(asm.lines) = 1 /\ "src" \in DOMAIN asm.lines[1])
        => LET n == DecValue(asm.lines[1].src[1])
           IN  asm.ds.numErrors = 0 <=> (0 - 128 <= n /\ n <= 255)

\* C12: declaring the same label twice, in the data section or across data
\* and text, yields an assembler error, and a source with assembler errors is
\* not emulated: once Assemble has returned on a source with a repeated
\* label, the error count is non-zero and Emulate is never entered.
Declared(a) ==
    [k \in 1..Len(a.lines) |-> a.lines[k].label]
    \o SelectSeq([k \in 1..Len(a.text) |-> TextLabel(a.text[k])], LAMBDA n : n # "")

DeclaredTwice(a) ==
    \E i, j \in 1..Len(Declared(a)) : i < j /\ Declared(a)[i] = Declared(a)[j]

C12_DuplicateLabel ==
    (asm.phase = "composed" /\ DeclaredTwice(asm))
        => (asm.ds.numErrors # 0 /\ status # "running")

\* C13: Assemble reports an error whenever the byte address ranges of the
\* assembled text image and data image intersect: once Assemble has returned,
\* if [TextStart, TextStart + 4 * text words) and [DataStart, DataStart +
\* 4 * data words) have a byte in common, the error count is non-zero.
ByteRange(mem) ==
    {a \in ToNat(mem.startingAddr)..(ToNat(mem.startingAddr) + 4 * Len(mem.memory) - 1) : TRUE}

ImagesIntersect(a) ==
    ByteRange(assembleText(a.text, a.settings).ret) \cap ByteRange(a.ds.retMem) # {}

C13_OverlapReported ==
    (asm.phase = "composed" /\ ImagesIntersect(asm)) => asm.ds.numErrors # 0

\* ------------------------------------------------------------------------
\* Software interrupts
\* ------------------------------------------------------------------------
\* the fetch of the loop at pc, and the code of the SWI it finds there (-1
\* when the word at pc cannot be fetched or is no SWI)
FetchAt(i) == memAccess(i, i.pc, TRUE)

SwiCode(i) ==
    IF ~FetchAt(i).ok \/ FetchAt(i).v = Zero32 THEN 0 - 1
    ELSE IF decodeInstruction(FetchAt(i).v).op # opSWI THEN 0 - 1
    ELSE decodeInstruction(FetchAt(i).v).imm[2]

KnownSwi == {582, 583, 598, 599}

\* C14: an SWI whose code is none of 582, 583, 598, 599 is a no-op: the
\* iteration that executes it appends no error and leaves the registers,
\* HI/LO, memory, the caches (as the fetch of the SWI left them) and the
\* scenario context alone; DI grows by 1 and PC by 4.
C14_UnknownSwiNoOp ==
    [][(Running /\ SwiCode(inst) >= 0 /\ SwiCode(inst) \notin KnownSwi)
        => /\ inst' = [FetchAt(inst).inst EXCEPT !.pc = Add32(inst.pc, Four32),
                                                 !.di = inst.di + 1]
           /\ inst'.errors = inst.errors
           /\ inst'.regs = inst.regs /\ inst'.regInit = inst.regInit
           /\ inst'.hi = inst.hi /\ inst'.lo = inst.lo
           /\ inst'.hiLoFilled = inst.hiLoFilled
           /\ inst'.memory = inst.memory
           /\ inst'.iCache = FetchAt(inst).inst.iCache
           /\ inst'.dCache = inst.dCache
           /\ inst'.swiContext = inst.swiContext
           /\ status' = "running"]_vars

\* guest "p1" after its swi 7: three instructions done, the context of
\* swi 582 in place
C14_Witness ==
    /\ guest.k = "p1" /\ status = "running"
    /\ inst.di = 3 /\ inst.pc = Add32(Settings.TextStart, <<0, 12>>)
    /\ inst.swiContext.kind = "Project1"
    /\ inst.errors = << >>

\* the grading SWI at pc finds no context of its own scenario
GradingMisuse(i) ==
    \/ SwiCode(i) = 583 /\ i.swiContext.kind # "Project1"
    \/ SwiCode(i) = 599 /\ i.swiContext.kind # "Project1Fa21"

\* C15: swi 583 or swi 599 executed while the scenario context is absent or
\* is the other scenario's appends InvalidSoftwareInterrupt and changes
\* nothing else: no register is written and the context keeps its value.
C15_GradingWithoutContext ==
    [][(Running /\ GradingMisuse(inst))
        => /\ inst' = [FetchAt(inst).inst EXCEPT
                          !.errors = Append(inst.errors, eInvalidSoftwareInterrupt),
                          !.pc = Add32(inst.pc, Four32), !.di = inst.di + 1]
           /\ inst'.regs = inst.regs /\ inst'.regInit = inst.regInit
           /\ inst'.memory = inst.memory
           /\ inst'.swiContext = inst.swiContext]_vars

\* guest "fa21" after its swi 583: the context is the one of swi 598
C15_Witness ==
    /\ guest.k = "fa21" /\ status = "running" /\ inst.di = 3
    /\ inst.swiContext.kind = "Project1Fa21"
    /\ inst.swiContext.ReportedAnswer = NoAnswer
    /\ inst.errors = <<eInvalidSoftwareInterrupt>>

\* guest "nocontext" after its swi 599: both grading interrupts refused
RefusedWithoutContext ==
    /\ guest.k = "nocontext" /\ status = "running" /\ inst.di = 4
    /\ inst.swiContext = NoContext
    /\ inst.errors = <<eInvalidSoftwareInterrupt, eInvalidSoftwareInterrupt>>

\* ------------------------------------------------------------------------
\* Scenario 582
\* ------------------------------------------------------------------------
\* sq is the reference flipped or not, then turned by 0 to 3 quarter turns
IsTurnOrFlip(sq, reference) ==
    \E f \in BOOLEAN, r \in 0..3 :
        sq = genSolution(reference, [flip |-> IF f THEN 0 ELSE 1, rot |-> r,
                                     offset |-> 0]).sol

\* the solution genSolution computes for the context p
GroundTruth(p) ==
    genSolution(p.Reference[2], [flip |-> IF p.SolutionFlipped THEN 0 ELSE 1,
                                 rot |-> p.SolutionRotation, offset |-> 0]).sol

\* the memory of i at a holds the puzzle of the context p
PuzzleAt(i, a, p) ==
    /\ memRead(i.memory, a) = <<p.Reference, TRUE>>
    /\ memRead(i.memory, Add32(Add32(a, Four32), p.SolutionOffset))
           = <<<<0, GroundTruth(p)>>, TRUE>>
    /\ \A k \in 0..7 :
           LET w == memRead(i.memory, Add32(Add32(a, Four32), U32(4 * k)))
           IN  /\ w[2]
               /\ IsTurnOrFlip(w[1][2], p.Reference[2]) <=> U32(4 * k) = p.SolutionOffset

\* C16: the iteration that executes swi 582 with $1 = a leaves a Project1
\* context, the reference at [a], the solution at [a + 4 + solution_offset],
\* and of the eight slots [a+4 .. a+32] exactly the one at solution_offset
\* holds a rotation/flip of the reference.
C16_SolutionPlacement ==
    [][(Running /\ SwiCode(inst) = 582)
        => /\ status' = "running"
           /\ inst'.swiContext.kind = "Project1"
           /\ PuzzleAt(inst', inst.regs[1], inst'.swiContext)]_vars

\* the same, for the executions of swi 582 that return
PuzzleWhenSwi582Returns ==
    [][(Running /\ SwiCode(inst) = 582 /\ status' = "running")
        => /\ inst'.swiContext.kind = "Project1"
           /\ PuzzleAt(inst', inst.regs[1], inst'.swiContext)]_vars

\* cell i of a square: bits 2i and 2i + 1
Cell(t, i) == (t \div Pow2(2 * i)) % 4

\* C17: the reference square of scenario 582, a value returned by genSquare,
\* has no two cyclically adjacent cells of equal color: cell i differs from
\* cell (i + 1) mod 8 for every i in 0..7, the pair cell 7 / cell 0 included.
C17_NoAdjacentEqual ==
    inst.swiContext.kind = "Project1"
        => \A i \in 0..7 : Cell(inst.swiContext.Reference[2], i)
                              # Cell(inst.swiContext.Reference[2], (i + 1) % 8)

\* what genSquare does ensure: the pairs inside the word, and cell 7 not 0
InnerPairsDiffer ==
    inst.swiContext.kind = "Project1"
        => /\ \A i \in 0..6 : Cell(inst.swiContext.Reference[2], i)
                                 # Cell(inst.swiContext.Reference[2], i + 1)
           /\ Cell(inst.swiContext.Reference[2], 7) # 0

\* ------------------------------------------------------------------------
\* Vetted batches
\* ------------------------------------------------------------------------
\* the instance Emulate starts a run of the batch from, d the run's samples
RunStart(d) ==
    [NewInstance(Settings.TextStart, Assemble(GuestText(guest), Settings).sysMem, BatchLimit)
        EXCEPT !.rand = d]

\* the answer the run from i on reports through swi 583: made = FALSE when
\* swi 583 never takes an answer, else v is the last value of $3 it took
RECURSIVE LastReport(_, _, _)
LastReport(i, tol, acc) ==
    IF Terminal(i, tol) THEN acc
    ELSE Local(LoopBody(i), LAMBDA next :
         Local(IF SwiCode(i) = 583 /\ i.swiContext.kind = "Project1"
               THEN [made |-> TRUE, v |-> regAccess(i, 3).v] ELSE acc, LAMBDA seen :
             IF next.fault THEN seen ELSE LastReport(next, tol, seen)))

ReportOf(d) == LastReport(RunStart(d), eTol, [made |-> FALSE, v |-> Zero32])

RECURSIVE SumCases(_, _, _)
SumCases(tcs, keys, withFails) ==
    IF keys = {} THEN 0
    ELSE LET k == CHOOSE k \in keys : TRUE
         IN  tcs[k].Successes + (IF withFails THEN tcs[k].Fails ELSE 0)
             + SumCases(tcs, keys \ {k}, withFails)

\* the step is an iteration of the batch that vets its emulation
VettedStep ==
    /\ batch.phase = "loop" /\ batch.vetSession # NoVet
    /\ batch'.phase = "loop" /\ batch'.i = batch.i + 1

\* C18: after any number of vetted emulations TotalCount is the sum over the
\* test cases of Successes + Fails and CorrectCount the sum of Successes; a
\* vetted run is counted once, and as a success iff the answer it reported
\* through swi 583 equals the solution of its context.
C18_VetAccounting ==
    [][(batch'.phase \in {"loop", "halted", "summary"} /\ batch'.vetSession # NoVet)
        => LET v == batch'.vetSession
           IN  /\ v.TotalCount = SumCases(v.TestCases, DOMAIN v.TestCases, TRUE)
               /\ v.CorrectCount = SumCases(v.TestCases, DOMAIN v.TestCases, FALSE)
               /\ VettedStep =>
                    \A rep \in {ReportOf(inst'.rand)} :
                      LET tc == TestCaseOf(inst'.swiContext)
                          before == IF tc \in DOMAIN batch.vetSession.TestCases
                                    THEN batch.vetSession.TestCases[tc]
                                    ELSE [Successes |-> 0, Fails |-> 0]
                          right == rep.made /\ rep.v = inst'.swiContext.SolutionOffset
                      IN  /\ v.TotalCount = batch.vetSession.TotalCount + 1
                          /\ v.CorrectCount = batch.vetSession.CorrectCount
                                                + (IF right THEN 1 ELSE 0)
                          /\ v.TestCases[tc].Successes
                                = before.Successes + (IF right THEN 1 ELSE 0)
                          /\ v.TestCases[tc].Fails
                                = before.Fails + (IF right THEN 0 ELSE 1)]_vars

\* guest "p1" after four vetted runs, right and wrong answers among them, in
\* two test cases
C18_Witness ==
    /\ guest.k = "p1" /\ batch.phase = "loop" /\ batch.vetSession # NoVet
    /\ batch.vetSession.TotalCount = 4
    /\ batch.vetSession.CorrectCount = 2
    /\ Cardinality(DOMAIN batch.vetSession.TestCases) = 2
    /\ \E tc \in DOMAIN batch.vetSession.TestCases :
           batch.vetSession.TestCases[tc].Fails = 2

\* e is one of the errors es
HasError(es, e) == \E k \in 1..Len(es) : es[k] = e

\* C19: the vet adds NoAnswerReported to the errors of a run iff swi 583
\* never took an answer in that run; the error is not added to a run in which
\* it did, whatever value was reported.
C19_NoAnswerIffNeverGraded ==
    [][VettedStep
        => \A rep \in {ReportOf(inst'.rand)} :
               HasError(batch'.vetted, eNoAnswerReported) <=> ~rep.made]_vars

\* what the code does: the error is added iff the context's reported offset
\* is 0x12345678 when the run ends
NoAnswerIffMagic ==
    [][VettedStep
        => \A rep \in {ReportOf(inst'.rand)} :
               HasError(batch'.vetted, eNoAnswerReported)
                   <=> (~rep.made \/ rep.v = NoAnswer)]_vars

\* C20: the batch is halted by the first emulation that brings the number of
\* runs ended by RuntimeLimitExceeded above 10, and the number of tests the
\* summary reports equals the vet session's TotalCount.
C20_BatchAbort ==
    /\ batch.phase = "halted" => batch.numInf = MaxInfiniteLoops + 1
    /\ (batch.phase = "loop" /\ batch.vetSession # NoVet)
          => batch.numInf <= MaxInfiniteLoops
    /\ (batch.phase = "summary" /\ batch.vetSession # NoVet)
          => batch.tests = batch.vetSession.TotalCount

\* what the code does: the emulation that halts the batch is counted in the
\* summary's number of tests and is not vetted
HaltedRunNotVetted ==
    (batch.phase = "summary" /\ batch.vetSession # NoVet)
        => /\ batch.numInf <= MaxInfiniteLoops
              => batch.tests = batch.vetSession.TotalCount
           /\ batch.numInf > MaxInfiniteLoops
              => batch.tests = batch.vetSession.TotalCount + 1

\* ------------------------------------------------------------------------
\* Isolation of the emulations of a batch
\* ------------------------------------------------------------------------
\* the step is an iteration of the batch's loop
IterationStep == batch.phase = "loop" /\ batch.i < batch.numSamples /\ inst' # inst

\* the words and the init bits of a page table, without the names of the
\* arrays that hold them
Contents(mem) ==
    [k \in DOMAIN mem |-> [startAddr |-> mem[k].startAddr, memory |-> mem[k].memory,
                           initialized |-> mem[k].initialized]]

\* the state Emulate returns, without the names of the arrays
Unnamed(i) ==
    [i EXCEPT !.memory = Contents(@),
              !.iCache = [startAddr |-> @.startAddr, alloc |-> @.alloc],
              !.dCache = [startAddr |-> @.startAddr, alloc |-> @.alloc]]

\* C21: the emulations of a batch are isolated: every emulation starts from
\* a page table whose words and init bits are those of the assembler's
\* output and whose slices share no array with main's memory; when it has
\* returned, none of its pages shares an array with main's memory, main's
\* memory is what the assembler gave, and the result is the one of an
\* emulation of the assembler's output.
C21_RunsIsolated ==
    [][batch.phase = "loop"
        => /\ batch.sysMem = Assemble(GuestText(guest), Settings).sysMem
           /\ batch'.sysMem = batch.sysMem
           /\ Contents(CopyMemory(batch.sysMem)) = Contents(asm.sysMem)
           /\ ArraysOf(CopyMemory(batch.sysMem)) \cap ArraysOf(batch.sysMem) = {}
           /\ IterationStep
                => /\ ArraysOf(inst'.memory) \cap ArraysOf(batch.sysMem) = {}
                   /\ Unnamed(inst')
                         = Unnamed(Emulate(Settings.TextStart,
                                           Assemble(GuestText(guest), Settings).sysMem,
                                           BatchLimit, eTol, inst'.rand))]_vars

\* guest "p1store" after its third run: the run has stored into the text
\* page and into the page of the puzzle, main's memory holds neither store
C21_Witness ==
    /\ guest.k = "p1store" /\ batch.phase = "loop" /\ batch.i = 3
    /\ memRead(inst.memory, Add32(Settings.TextStart, <<0, 64>>)) = <<StackSeed, TRUE>>
    /\ memRead(batch.sysMem, Add32(Settings.TextStart, <<0, 64>>)) = <<Zero32, FALSE>>
    /\ memRead(inst.memory, U32(ScenarioBase))[2]
    /\ ~memRead(batch.sysMem, U32(ScenarioBase))[2]
    /\ HasError(inst.errors, eUninitializedMemoryAccess)

\* ------------------------------------------------------------------------
\* Composition of the images into the paged memory
\* ------------------------------------------------------------------------
\* the address of word k of an image
WordAddr(img, k) == Add32(img.startingAddr, U32(4 * k))

\* the words of the page table that are marked initialized, as <<page, slot>>
InitializedWords(mem) ==
    UNION {{<<pg, idx>> : idx \in mem[pg].initialized} : pg \in DOMAIN mem}

ImageWords(img) ==
    {<<PageOf(WordAddr(img, k)), WordIdx(WordAddr(img, k))>> : k \in 0..(Len(img.memory) - 1)}

\* C22: after the composition every word k of the data image (added last)
\* is read back from the page table at S + 4k as (wk, TRUE), whatever pages
\* the image spans, and no word outside the two images is marked initialized.
C22_ImageReadBack ==
    asm.phase = "composed"
        => /\ \A k \in 0..(Len(asm.ds.retMem.memory) - 1) :
                  memRead(asm.sysMem, WordAddr(asm.ds.retMem, k))
                      = <<asm.ds.retMem.memory[k + 1], TRUE>>
           /\ InitializedWords(asm.sysMem)
                 \subseteq ImageWords(asm.ds.retMem)
                           \cup ImageWords(assembleText(asm.text, asm.settings).ret)

\* the image lies in one page
InOnePage(img) ==
    \A k \in 0..(Len(img.memory) - 1) : PageOf(WordAddr(img, k)) = PageOf(img.startingAddr)

\* what the code does ensure: the read-back of the images that stay in the
\* page of their first word
ReadBackInOnePage ==
    (asm.phase = "composed" /\ InOnePage(asm.ds.retMem)
                            /\ InOnePage(assembleText(asm.text, asm.settings).ret))
        => /\ \A k \in 0..(Len(asm.ds.retMem.memory) - 1) :
                  memRead(asm.sysMem, WordAddr(asm.ds.retMem, k))
                      = <<asm.ds.retMem.memory[k + 1], TRUE>>
           /\ InitializedWords(asm.sysMem)
                 = ImageWords(asm.ds.retMem)
                   \cup ImageWords(assembleText(asm.text, asm.settings).ret)

\* ------------------------------------------------------------------------
\* The two caches
\* ------------------------------------------------------------------------
\* an iteration of Emulate's loop that returns to the loop's head
StepTaken ==
    /\ status = "running" /\ status' = "running"
    /\ ~Terminal(inst, eTol)
    /\ inst' = LoopBody(inst)

\* the load or store made by the instruction about to run: whether there is
\* one, its kind and its address
DataAccess(i) ==
    LET f == FetchAt(i)
        d == decodeInstruction(f.v)
    IN  IF f.ok /\ f.v # Zero32 /\ d.op \in {opLB, opLBU, opLW, opSB, opSW}
        THEN [any |-> TRUE, store |-> d.op \in {opSB, opSW},
              addr |-> Add32(regAccess(f.inst, d.x).v, ImmOffset(d.imm))]
        ELSE [any |-> FALSE, store |-> FALSE, addr |-> Zero32]

\* the branch of memAccess and memWrite an address takes
InICache(i, addr) == PageOf(addr) = PageOf(i.iCache.startAddr)
InDCache(i, addr) == ~InICache(i, addr) /\ PageOf(addr) = PageOf(i.dCache.startAddr)
MissesBoth(i, addr) == ~InICache(i, addr) /\ ~InDCache(i, addr)

\* the step's data access misses both caches, as a load or as a store
DataMiss(f, a) == a.any /\ MissesBoth(f.inst, a.addr)

\* C23: a data access (load or store) that misses both caches sets the
\* missed-once flag and keeps the data cache when the flag is clear, and makes
\* the accessed page the data cache when the flag is set; no other step
\* changes the data cache; an instruction fetch that misses makes the fetched
\* page the instruction cache and leaves the data cache alone.
C23_TwoStrikePolicy ==
    [][/\ StepTaken =>
            \A f \in {FetchAt(inst)}, a \in {DataAccess(inst)} :
              /\ (DataMiss(f, a) /\ ~f.inst.dMissed)
                    => (inst'.dMissed /\ inst'.dCache = inst.dCache)
              /\ (DataMiss(f, a) /\ f.inst.dMissed)
                    => inst'.dCache = CacheOf(inst'.memory, a.addr)
              /\ ~(DataMiss(f, a) /\ f.inst.dMissed)
                    => inst'.dCache = inst.dCache
              /\ (MissesBoth(inst, inst.pc) /\ f.ok)
                    => (f.inst.iCache = CacheOf(inst.memory, inst.pc) /\ f.inst.dCache = inst.dCache)
       /\ ~StepTaken => inst'.dCache = inst.dCache]_vars

\* the step's data access is a load of an initialized word that misses both
\* caches
LoadMiss(f, a) ==
    /\ DataMiss(f, a) /\ ~a.store
    /\ memRead(f.inst.memory, a.addr)[2]

\* what the code does ensure: the policy for the loads that miss on an
\* initialized word; a store that misses, and a load that misses on an
\* uninitialized word, change neither the flag nor the data cache
TwoStrikeOnLoads ==
    [][/\ StepTaken =>
            \A f \in {FetchAt(inst)}, a \in {DataAccess(inst)} :
              /\ (LoadMiss(f, a) /\ ~f.inst.dMissed)
                    => (inst'.dMissed /\ inst'.dCache = inst.dCache)
              /\ (LoadMiss(f, a) /\ f.inst.dMissed)
                    => (inst'.dMissed /\ inst'.dCache = CacheOf(inst'.memory, a.addr))
              /\ ~(LoadMiss(f, a) /\ f.inst.dMissed)
                    => inst'.dCache = inst.dCache
              /\ (DataMiss(f, a) /\ ~LoadMiss(f, a))
                    => inst'.dMissed = f.inst.dMissed
              /\ (MissesBoth(inst, inst.pc) /\ f.ok)
                    => (f.inst.iCache = CacheOf(inst.memory, inst.pc) /\ f.inst.dCache = inst.dCache)
       /\ ~StepTaken => inst'.dCache = inst.dCache]_vars

\* a second load miss has just replaced the data cache at the page boundary
DataCacheReplaced ==
    /\ guest.k = "cache" /\ guest.a = 2 /\ status = "running"
    /\ inst.di = 6
    /\ inst.dCache = CacheOf(inst.memory, U32(CacheEdge))
    /\ inst.dMissed

\* the step's data access is served from a cache: a store into a cached page,
\* or a load of an initialized word of a cached page
DataHit(f, a) ==
    /\ a.any /\ ~MissesBoth(f.inst, a.addr)
    /\ a.store \/ memRead(f.inst.memory, a.addr)[2]

\* C24: after a memory access served from the instruction cache or from the
\* data cache (the fetch of the instruction, its load or its store) the
\* missed-once flag is false.
C24_HitClearsFlag ==
    [][StepTaken =>
          \A f \in {FetchAt(inst)}, a \in {DataAccess(inst)} :
            /\ (f.ok /\ ~MissesBoth(inst, inst.pc)) => ~f.inst.dMissed
            /\ DataHit(f, a) => ~inst'.dMissed]_vars

\* what the code does ensure: an access served from the data cache clears the
\* flag, an access served from the instruction cache leaves it as it was
DataCacheHitClearsFlag ==
    [][StepTaken =>
          \A f \in {FetchAt(inst)}, a \in {DataAccess(inst)} :
            /\ (f.ok /\ InDCache(inst, inst.pc)) => ~f.inst.dMissed
            /\ (f.ok /\ InICache(inst, inst.pc)) => f.inst.dMissed = inst.dMissed
            /\ (DataHit(f, a) /\ InDCache(f.inst, a.addr)) => ~inst'.dMissed
            /\ (DataHit(f, a) /\ InICache(f.inst, a.addr))
                  => inst'.dMissed = inst.dMissed]_vars

\* a hit in the data cache has just cleared the flag that the replacement of
\* the data cache left set
FlagClearedByHit ==
    /\ guest.k = "cache" /\ guest.a = 2 /\ status = "running"
    /\ inst.di = 7
    /\ inst.dCache = CacheOf(inst.memory, U32(CacheEdge))
    /\ ~inst.dMissed

\* the word a store instruction leaves at its address: the register for sw,
\* the old word with one byte lane replaced for sb
StoredWord(i, a) ==
    LET d    == decodeInstruction(FetchAt(i).v)
        src  == regAccess(i, d.z).v
        old  == memRead(i.memory, a.addr)[1]
        lane == (a.addr[2] % 4) * 8
    IN  IF d.op = opSW THEN src
        ELSE MergeWord(old, Shl32(<<0, src[2] % K8>>, lane), Shl32(<<0, 255>>, lane))

\* the value a load instruction puts in its register, given the word read
LoadedValue(i, a, w) ==
    LET d == decodeInstruction(FetchAt(i).v)
    IN  IF d.op = opLW THEN w
        ELSE IF d.op = opLBU THEN <<0, ByteLane(w, a.addr[2] % 4)>>
        ELSE SExt8(ByteLane(w, a.addr[2] % 4))

\* a filled cache is the page-table entry of its page id: the same start
\* address, slices that refer to the arrays of the entry, and so the words
\* and the init bits of the entry
HoldsEntry(i, c) ==
    c.alloc => /\ PageOf(c.startAddr) \in DOMAIN i.memory
               /\ i.memory[PageOf(c.startAddr)].startAddr = c.startAddr
               /\ i.memory[PageOf(c.startAddr)].memArr = c.memArr
               /\ i.memory[PageOf(c.startAddr)].initArr = c.initArr
               /\ CachedPage(i, c).memory = i.memory[PageOf(c.startAddr)].memory
               /\ CachedPage(i, c).initialized = i.memory[PageOf(c.startAddr)].initialized

\* C25: in every state a filled cache and the page-table entry of its page
\* id are one page (the same arrays, and so the same words and init bits):
\* a store made through a cache is in the page table at once, and so in the
\* Memory that Emulate returns; a load served from a cache returns the word
\* and the initialized bit the page table holds.
C25_CacheCoherence ==
    [][/\ HoldsEntry(inst, inst.iCache) /\ HoldsEntry(inst, inst.dCache)
       /\ HoldsEntry(inst', inst'.iCache) /\ HoldsEntry(inst', inst'.dCache)
       /\ StepTaken =>
          \A f \in {FetchAt(inst)}, a \in {DataAccess(inst)} :
            /\ HoldsEntry(f.inst, f.inst.iCache) /\ HoldsEntry(f.inst, f.inst.dCache)
            /\ (f.ok /\ ~MissesBoth(inst, inst.pc)) => f.v = memRead(inst.memory, inst.pc)[1]
            /\ (DataHit(f, a) /\ a.store)
                  => memRead(inst'.memory, a.addr) = <<StoredWord(inst, a), TRUE>>
            /\ (DataHit(f, a) /\ ~a.store)
                  => \A d \in {decodeInstruction(f.v)} :
                       d.z # 0 => inst'.regs[d.z]
                                    = LoadedValue(inst, a, memRead(inst.memory, a.addr)[1])
            /\ (a.any /\ ~a.store /\ ~MissesBoth(f.inst, a.addr))
                  => (memRead(inst.memory, a.addr)[2]
                        <=> Len(inst'.errors) = Len(regAccess(f.inst, decodeInstruction(f.v).x).inst.errors))]_vars

\* Emulate has returned a Memory that holds the word stored through the data
\* cache, and the register loaded through the data cache holds it too
C25_Witness ==
    /\ guest.k = "cache" /\ guest.b = 2 /\ status = "done"
    /\ inst.dCache = CacheOf(inst.memory, U32(CacheEdge))
    /\ memRead(inst.memory, U32(CacheEdge + 4)) = <<StackSeed, TRUE>>
    /\ inst.regs[7] = StackSeed
    /\ inst.errors = << >>

\* ------------------------------------------------------------------------
\* The two passes over the text section
\* ------------------------------------------------------------------------
\* the word an image holds at an address, and whether it holds one
ImageWordAt(img, addr) ==
    LET off == Sub32(addr, img.startingAddr)
        k   == (off[2] \div 4) + 1
    IN  IF off[1] = 0 /\ off[2] % 4 = 0 /\ k <= Len(img.memory)
        THEN <<img.memory[k], TRUE>>
        ELSE <<Zero32, FALSE>>

\* line k of the text is the last line that declares its label
DeclaresLabel(text, k) ==
    /\ TextLabel(text[k]) # ""
    /\ \A j \in (k + 1)..Len(text) : TextLabel(text[j]) # TextLabel(text[k])

\* C26: the address pass 1 (extractTextLabels) records for the label of a
\* text line is the address at which pass 2 (assembleText) emits the
\* instruction of that line, jal lines in any letter case included.
C26_PassesAgree ==
    asm.phase = "composed"
        => \A k \in 1..Len(asm.text) :
              DeclaresLabel(asm.text, k)
                  => ImageWordAt(assembleText(asm.text, asm.settings).ret,
                                 asm.ds.labels[TextLabel(asm.text[k])])
                       = <<assembleInstruction(asm.text[k]).w, TRUE>>

\* every jal of the text is spelled in lower case
JalInLowerCase(text) ==
    \A k \in 1..Len(text) : ToLower(text[k].op) = "jal" => text[k].op = "jal"

\* what the code does ensure: the passes agree on the texts whose jal lines
\* are spelled "jal"
PassesAgreeInLowerCase ==
    (asm.phase = "composed" /\ JalInLowerCase(asm.text))
        => \A k \in 1..Len(asm.text) :
              DeclaresLabel(asm.text, k)
                  => ImageWordAt(assembleText(asm.text, asm.settings).ret,
                                 asm.ds.labels[TextLabel(asm.text[k])])
                       = <<assembleInstruction(asm.text[k]).w, TRUE>>

\* a text with two lower-case jal lines is assembled: the last label is 16
\* bytes past the start and the image has five words
TwoJalsAssembled ==
    /\ asm.phase = "composed" /\ Len(asm.text) = 3
    /\ asm.text[1].op = "jal" /\ asm.text[2].op = "jal"
    /\ asm.ds.labels["L3"] = Add32(asm.settings.TextStart, <<0, 16>>)
    /\ Len(assembleText(asm.text, asm.settings).ret.memory) = 5

\* ------------------------------------------------------------------------
\* Branch targets from the assembler to the emulator
\* ------------------------------------------------------------------------
\* the source line of the guest that was assembled at the pc (the guests of
\* Spec have no jal, so every line is one word)
LineAtPc(i) ==
    LET off == Sub32(i.pc, Settings.TextStart)
    IN  IF off[1] = 0 /\ off[2] % 4 = 0 /\ off[2] \div 4 < Len(GuestText(guest))
        THEN (off[2] \div 4) + 1 ELSE 0

\* the instruction about to run is the beq or bne of a source line whose
\* word-aligned target the assembler accepts
AcceptedBranch(i) ==
    /\ LineAtPc(i) # 0
    /\ LET l == GuestText(guest)[LineAtPc(i)]
       IN  /\ ToLower(l.op) \in {"beq", "bne"}
           /\ extractStandardITypeInfo(l, Mask18).ok
           /\ l.v[2] % 4 = 0

BranchTaken(i, d) ==
    IF d.op = opBEQ THEN regAccess(i, d.z).v = regAccess(i, d.x).v
    ELSE regAccess(i, d.z).v # regAccess(i, d.x).v

\* C27: for a word-aligned target T that the assembler accepts on a beq or
\* bne line, the immediate decoded from the assembled word satisfies
\* imm * 4 = T, and the branch, when taken, makes T the next pc.
C27_BranchRoundTrip ==
    [][(StepTaken /\ AcceptedBranch(inst))
          => \A d \in {decodeInstruction(FetchAt(inst).v)},
                T \in {GuestText(guest)[LineAtPc(inst)].v} :
               /\ Shl32(d.imm, 2) = T
               /\ BranchTaken(inst, d) => inst'.pc = T]_vars

\* what the code does ensure: the round trip of the targets below 2^16
BranchRoundTripBelow64K ==
    [][(StepTaken /\ AcceptedBranch(inst))
          => \A d \in {decodeInstruction(FetchAt(inst).v)},
                T \in {GuestText(guest)[LineAtPc(inst)].v} :
               T[1] = 0 => /\ Shl32(d.imm, 2) = T
                           /\ BranchTaken(inst, d) => inst'.pc = T]_vars

\* a taken bne has just made 0xFFFC the pc
BranchedBelow64K ==
    /\ guest.k = "bne" /\ BranchTargets[guest.a] = <<0, K16 - 4>>
    /\ status = "running" /\ inst.di = 1
    /\ inst.pc = <<0, K16 - 4>>

\* ------------------------------------------------------------------------
\* The error tolerance
\* ------------------------------------------------------------------------
\* the instruction about to run can assign the pc: a jump or a branch
TransfersControl(i) ==
    LET f == FetchAt(i)
        d == decodeInstruction(f.v)
    IN  /\ f.ok /\ f.v # Zero32
        /\ \/ d.op \in {opJ, opJAL, opBEQ, opBNE}
           \/ d.op = 0 /\ d.fn = fnJR

\* C28: at the head of the loop an error list of eTol entries or more ends
\* the emulation: nothing is executed, ErrorLimitReached is appended as the
\* last error and Emulate returns; below the tolerance an iteration whose
\* instruction reports errors is completed like any other: the emulation is
\* still running, DI is one more and the pc is past the instruction.
C28_ErrorTolerance ==
    [][/\ (status = "running" /\ Len(inst.errors) >= eTol)
             => (/\ status' = "done"
                 /\ inst' = [inst EXCEPT !.errors = Append(@, eErrorLimitReached)])
       /\ (status = "running" /\ ~Terminal(inst, eTol)
                              /\ Len(LoopBody(inst).errors) > Len(inst.errors))
             => (/\ status' = "running"
                 /\ inst' = LoopBody(inst)
                 /\ inst'.di = inst.di + 1
                 /\ ~TransfersControl(inst) => inst'.pc = Add32(inst.pc, Four32))
       /\ (status' = "done" /\ Len(inst.errors) < eTol)
             => ~HasError(inst'.errors, eErrorLimitReached)]_vars

\* what the code does ensure: the same, but for the iterations that report
\* an error and then index the nil slice of an unfilled cache, which end the
\* process
ToleranceUnlessPanic ==
    [][/\ (status = "running" /\ Len(inst.errors) >= eTol)
             => (/\ status' = "done"
                 /\ inst' = [inst EXCEPT !.errors = Append(@, eErrorLimitReached)])
       /\ (status = "running" /\ ~Terminal(inst, eTol)
                              /\ Len(LoopBody(inst).errors) > Len(inst.errors))
             => IF LoopBody(inst).fault THEN status' = "panic"
                ELSE (/\ status' = "running"
                      /\ inst' = LoopBody(inst)
                      /\ inst'.di = inst.di + 1
                      /\ ~TransfersControl(inst) => inst'.pc = Add32(inst.pc, Four32))
       /\ (status' = "done" /\ Len(inst.errors) < eTol)
             => ~HasError(inst'.errors, eErrorLimitReached)]_vars

\* the load through the uninitialized register $5 has reported the register
\* and ended the process in the unfilled data cache
PanicAfterReport ==
    /\ guest.k = "loadreg" /\ status = "panic"
    /\ inst.di = 0 /\ inst.errors = << >>
    /\ LoopBody(inst).fault
    /\ LoopBody(inst).errors = <<eUninitializedRegisterAccess>>

\* with a tolerance of one the load of an uninitialized word was counted and
\* passed, and the emulation ended at the next instruction
ErrorCountedAndPassed ==
    /\ guest.k = "load" /\ eTol = 1 /\ status = "done"
    /\ inst.errors = <<eUninitializedMemoryAccess, eErrorLimitReached>>
    /\ inst.di = 3
    /\ inst.pc = Add32(Settings.TextStart, <<0, 12>>)
    /\ 3 \notin inst.regInit

\* ------------------------------------------------------------------------
\* Byte stores and byte loads
\* ------------------------------------------------------------------------
\* the instruction about to run, when the fetch succeeds, is of opcode op
AboutToRun(i, op) ==
    LET f == FetchAt(i)
    IN  f.ok /\ f.v # Zero32 /\ decodeInstruction(f.v).op = op

\* the word of the page table at an address, zero when it was never written
WordAt(mem, addr) == memRead(mem, addr)[1]

TargetWord(addr) == <<PageOf(addr), WordIdx(addr)>>

\* every word but the one at addr is the same in both memories
OtherWordsKept(mem, mem2, addr) ==
    \A w \in (InitializedWords(mem) \cup InitializedWords(mem2)) \ {TargetWord(addr)} :
        /\ w \in InitializedWords(mem) /\ w \in InitializedWords(mem2)
        /\ PageWord(mem[w[1]], w[2]) = PageWord(mem2[w[1]], w[2])

\* the effect of an sb of value V at address A between two memories
ByteStored(mem, mem2, A, V) ==
    /\ memRead(mem2, A)[2]
    /\ \A k \in 0..3 :
          ByteLane(WordAt(mem2, A), k)
              = IF k = A[2] % 4 THEN V[2] % K8 ELSE ByteLane(WordAt(mem, A), k)
    /\ OtherWordsKept(mem, mem2, A)

\* C29: an sb of register value V at address A, for every A, puts V & 0xFF in
\* byte lane A mod 4 of the word at A and changes no other lane and no other
\* word; an lbu at A returns the byte of lane A mod 4, an lb the same byte
\* sign-extended.
C29_StoreByte ==
    [][(status = "running" /\ ~Terminal(inst, eTol))
          => \A f \in {FetchAt(inst)}, a \in {DataAccess(inst)} :
               \A d \in {decodeInstruction(f.v)} :
                 /\ AboutToRun(inst, opSB)
                       => /\ status' = "running"
                          /\ ByteStored(inst.memory, inst'.memory, a.addr,
                                        regAccess(inst, d.z).v)
                 /\ (AboutToRun(inst, opLBU) /\ memRead(inst.memory, a.addr)[2] /\ d.z # 0)
                       => /\ status' = "running"
                          /\ inst'.regs[d.z]
                               = <<0, ByteLane(WordAt(inst.memory, a.addr), a.addr[2] % 4)>>
                 /\ (AboutToRun(inst, opLB) /\ memRead(inst.memory, a.addr)[2] /\ d.z # 0)
                       => /\ status' = "running"
                          /\ inst'.regs[d.z]
                               = SExt8(ByteLane(WordAt(inst.memory, a.addr), a.addr[2] % 4))]_vars

\* an access to the page of a cache that was never filled
UnfilledCacheHit(i, addr) ==
    \/ InICache(i, addr) /\ ~i.iCache.alloc
    \/ InDCache(i, addr) /\ ~i.dCache.alloc

\* what the code does ensure: the same, for the addresses outside the page
\* of a cache that was never filled
StoreByteOutsideUnfilledCache ==
    [][(status = "running" /\ ~Terminal(inst, eTol))
          => \A f \in {FetchAt(inst)}, a \in {DataAccess(inst)} :
               \A d \in {decodeInstruction(f.v)} :
                 /\ (AboutToRun(inst, opSB) /\ ~UnfilledCacheHit(f.inst, a.addr))
                       => /\ status' = "running"
                          /\ ByteStored(inst.memory, inst'.memory, a.addr,
                                        regAccess(inst, d.z).v)
                 /\ (AboutToRun(inst, opLBU) /\ memRead(inst.memory, a.addr)[2] /\ d.z # 0
                                             /\ ~UnfilledCacheHit(f.inst, a.addr))
                       => /\ status' = "running"
                          /\ inst'.regs[d.z]
                               = <<0, ByteLane(WordAt(inst.memory, a.addr), a.addr[2] % 4)>>
                 /\ (AboutToRun(inst, opLB) /\ memRead(inst.memory, a.addr)[2] /\ d.z # 0
                                            /\ ~UnfilledCacheHit(f.inst, a.addr))
                       => /\ status' = "running"
                          /\ inst'.regs[d.z]
                               = SExt8(ByteLane(WordAt(inst.memory, a.addr), a.addr[2] % 4))]_vars

\* the byte 0x80 was stored in lane 3 of 0x3000 over the stack seed and
\* read back by lbu, by lb and, with the other lanes, by lw
ByteReadBack ==
    /\ guest = Guest("byte", 3, 128) /\ status = "done"
    /\ inst.regs[3] = <<0, 128>>
    /\ inst.regs[4] = <<K16 - 1, K16 - 128>>
    /\ inst.regs[5] = <<128 * 256 + 16, 0>>
    /\ Len(inst.errors) = 1

\* ------------------------------------------------------------------------
\* The snapshots of the failed runs
\* ------------------------------------------------------------------------
\* the number of snapshots the session retains for a test-case key
Retained(v, tc) ==
    Cardinality({k \in 1..Len(v.FailedSnapshots) : v.FailedSnapshots[k].TestCase = tc})

\* C30: a snapshot is appended only by the vet of a failed run, under the key
\* of that run; the first failure of a key is always retained; for every key
\* the number of retained snapshots is at most the key's Fails and never
\* decreases.
C30_SnapshotRetention ==
    [][(batch.vetSession # NoVet /\ batch'.vetSession # NoVet)
          => \A v \in {batch.vetSession}, w \in {batch'.vetSession} :
               /\ \A tc \in DOMAIN w.TestCases :
                     /\ Retained(w, tc) <= w.TestCases[tc].Fails
                     /\ Retained(w, tc) >= Retained(v, tc)
                     /\ w.TestCases[tc].Fails >= 1 => Retained(w, tc) >= 1
               /\ \A k \in 1..Len(w.FailedSnapshots) :
                     w.FailedSnapshots[k].TestCase \in DOMAIN w.TestCases
               /\ Len(w.FailedSnapshots) \in {Len(v.FailedSnapshots), Len(v.FailedSnapshots) + 1}
               /\ SubSeq(w.FailedSnapshots, 1, Len(v.FailedSnapshots)) = v.FailedSnapshots
               /\ Len(w.FailedSnapshots) > Len(v.FailedSnapshots)
                     => \A tc \in {TestCaseOf(inst'.swiContext)} :
                          /\ VettedStep
                          /\ inst'.swiContext.ReportedOffset # inst'.swiContext.SolutionOffset
                          /\ w.FailedSnapshots[Len(w.FailedSnapshots)].TestCase = tc
                          /\ w.TestCases[tc].Fails
                               = 1 + (IF tc \in DOMAIN v.TestCases
                                      THEN v.TestCases[tc].Fails ELSE 0)
                          /\ w.FailedSnapshots[Len(w.FailedSnapshots)].Snapshot.di = inst'.di]_vars

\* a key has failed three times and two of its failures were retained, the
\* first of them included
C30_Witness ==
    /\ batch.phase = "loop" /\ batch.vetSession # NoVet
    /\ \E tc \in DOMAIN batch.vetSession.TestCases :
          /\ batch.vetSession.TestCases[tc].Fails = 3
          /\ Retained(batch.vetSession, tc) = 2
          /\ batch.vetSession.FailedSnapshots[1].TestCase = tc

====
